---- MODULE Spec2Model ----
(***************************************************************************)
(* Model of the queryist analyzers: MySQLAnalyzer (src/README.md) and      *)
(* PostgreAnalyzer (src/lib/analyzers/postgreAnalyzer.js).                 *)
(*                                                                         *)
(* Strings whose contents the code inspects (the query text, 'Hash Cond',  *)
(* 'partitions', 'Extra') are sequences of tokens, so that trim,           *)
(* toLowerCase, startsWith and includes are computed and not assumed.      *)
(* An absent (undefined) numeric field is Undef, an absent string is the   *)
(* empty sequence or "".                                                   *)
(***************************************************************************)
EXTENDS Integers, Sequences, FiniteSets, TLC

VARIABLES
    currentLang,    \* language of the I18n object given to the analyzer
    engine,         \* which analyzer the instance is: "pg" or "mysql"
    pc,             \* position of the analyze call
    query,          \* the argument of analyze
    trimmedQuery,   \* query.trim(), once validation has computed it
    client,         \* client / connection: "none", "held", "released", "releaseFailed"
    explainResult,  \* <<>> is undefined, <<x>> the plan object or row
    tableStats,     \* rows of the statistics query, [] until it succeeds
    indexes,        \* rows of the index query, [] until it succeeds
    result,         \* <<>> or <<the object analyze returns>>
    error,          \* <<>> or the message of the Error analyze throws
    outcome,        \* "none", "returned", "thrown": how the call completed
    io,             \* the calls made on the database collaborator, in order
    warnings,       \* the logger.warn calls, in order
    pEngine,        \* engine whose prioritizeRecommendations is applied
    pInput,         \* the list as the caller built it, before the call
    pArray,         \* the caller's array object (its current contents)
    pOutput,        \* the value returned by prioritizeRecommendations
    pCalled,        \* whether prioritizeRecommendations has been applied
    calls,          \* the local variables of each of two overlapping analyze calls
    dbType,         \* the type argument of testConnection: "MySQL" or "PostgreSQL"
    tcPc,           \* position of the testConnection call
    connection,     \* testConnection's variable: "undefined" or "set"
    catalog,        \* the databases of the server, as the listing query saw them
    dbList,         \* the list computed from the listing query
    tcError,        \* <<>> or the message of the error testConnection is throwing
    tcOutcome,      \* "none", "returned", "thrown"
    spinner,        \* "idle", "spinning", "succeed", "fail"
    mainNext,       \* what main does after testConnection: "none", "exit", "selectDatabase"
    tcIo            \* the calls testConnection made on the driver, in order

avars == <<currentLang, engine, pc, query, trimmedQuery, client, explainResult, tableStats,
           indexes, result, error, outcome, io, warnings>>

pvars == <<pEngine, pInput, pArray, pOutput, pCalled>>

vars == <<currentLang, engine, pc, query, trimmedQuery, client, explainResult,
          tableStats, indexes, result, error, outcome, io, warnings,
          pEngine, pInput, pArray, pOutput, pCalled, calls,
          dbType, tcPc, connection, catalog, dbList, tcError, tcOutcome, spinner,
          mainNext, tcIo>>

tvars == <<dbType, tcPc, connection, catalog, dbList, tcError, tcOutcome, spinner,
           mainNext, tcIo>>

\* ------------------------------------------------------------------ bounds
MaxRecs == 3

\* --------------------------------------------------------------- constants
Engines == {"pg", "mysql"}

\* severityOrder[sev]
severityOrder(sev) ==
    CASE sev = "HIGH" -> 0
      [] sev = "MEDIUM" -> 1
      [] sev = "LOW" -> 2

\* the fixed priority list of each analyzer
priorityTypes(e) ==
    IF e = "pg"
    THEN <<"SEQUENTIAL_SCAN", "EXPENSIVE_NESTED_LOOP", "TEMP_FILES",
           "MISSING_JOIN_INDEX", "INEFFECTIVE_PARTITION", "AGGREGATE_SPILL">>
    ELSE <<"TABLE_SCAN", "JOIN_OPTIMIZATION", "LARGE_TABLE_SCAN",
           "DEPENDENT_SUBQUERY", "GROUP_BY_OPTIMIZATION", "LARGE_SORT">>

\* Array.prototype.indexOf on a list of strings: 0-based, -1 when absent
indexOf(list, x) ==
    IF \E i \in 1..Len(list) : list[i] = x
    THEN (CHOOSE i \in 1..Len(list) :
              list[i] = x /\ \A j \in 1..(i - 1) : list[j] # x) - 1
    ELSE -1

\* stands for the JavaScript Infinity: larger than every index of the list
Infinity == 1000000

\* mutant: the comparator without the severity key
Compare_noSeverity(e, a, b) ==
    LET aTypePriority == indexOf(priorityTypes(e), a.type)
        bTypePriority == indexOf(priorityTypes(e), b.type)
    IN  IF aTypePriority # bTypePriority
        THEN (IF aTypePriority = -1 THEN Infinity ELSE aTypePriority)
             - (IF bTypePriority = -1 THEN Infinity ELSE bTypePriority)
        ELSE 0

\* the comparator handed to sort() by prioritizeRecommendations
Compare(e, a, b) ==
    IF severityOrder(a.severity) # severityOrder(b.severity)
    THEN severityOrder(a.severity) - severityOrder(b.severity)
    ELSE LET aTypePriority == indexOf(priorityTypes(e), a.type)
             bTypePriority == indexOf(priorityTypes(e), b.type)
         IN  IF aTypePriority # bTypePriority
             THEN (IF aTypePriority = -1 THEN Infinity ELSE aTypePriority)
                  - (IF bTypePriority = -1 THEN Infinity ELSE bTypePriority)
             ELSE 0

RECURSIVE InsertSorted_unstable(_, _, _)
\* mutant: an insertion that goes in front of the elements it compares equal to
InsertSorted_unstable(e, x, s) ==
    IF s = <<>> THEN <<x>>
    ELSE IF Compare(e, Head(s), x) >= 0 THEN <<x>> \o s
    ELSE <<Head(s)>> \o InsertSorted_unstable(e, x, Tail(s))

RECURSIVE InsertSorted_dedupe(_, _, _)
\* mutant: an insertion that drops an element comparing equal to one present
InsertSorted_dedupe(e, x, s) ==
    IF s = <<>> THEN <<x>>
    ELSE IF Compare(e, Head(s), x) = 0 THEN s
    ELSE IF Compare(e, Head(s), x) > 0 THEN <<x>> \o s
    ELSE <<Head(s)>> \o InsertSorted_dedupe(e, x, Tail(s))

RECURSIVE InsertSorted(_, _, _)
\* Array.prototype.sort is a stable sort (ECMAScript 2019, V8 TimSort): an
\* element is placed behind every element that does not compare greater.
InsertSorted(e, x, s) ==
    IF s = <<>> THEN <<x>>
    ELSE IF Compare(e, Head(s), x) > 0 THEN <<x>> \o s
    ELSE <<Head(s)>> \o InsertSorted(e, x, Tail(s))

RECURSIVE ArraySort(_, _)
\* recommendations.sort(comparator)
ArraySort(e, s) ==
    IF s = <<>> THEN <<>>
    ELSE InsertSorted(e, s[Len(s)], ArraySort(e, SubSeq(s, 1, Len(s) - 1)))

\* mutant: sorting a copy ([...recommendations].sort) and leaving the argument
prioritizeRecommendations_copy(e, recommendations) ==
    [array |-> recommendations, returned |-> ArraySort(e, recommendations)]

\* prioritizeRecommendations: sort() sorts the argument in place and returns
\* that same array; array is the argument after the call, returned the value
prioritizeRecommendations(e, recommendations) ==
    LET sorted == ArraySort(e, recommendations)
    IN  [array |-> sorted, returned |-> sorted]

\* ---------------------------------------------------------- string helpers
\* an absent (undefined) number
Undef == -1

\* the characters String.prototype.trim removes
Whitespace == {" ", "\t", "\n"}

RECURSIVE trimStart(_)
trimStart(s) ==
    IF s # <<>> /\ Head(s) \in Whitespace THEN trimStart(Tail(s)) ELSE s

RECURSIVE trimEnd(_)
trimEnd(s) ==
    IF s # <<>> /\ s[Len(s)] \in Whitespace
    THEN trimEnd(SubSeq(s, 1, Len(s) - 1)) ELSE s

\* String.prototype.trim
trim(s) == trimEnd(trimStart(s))

\* lower case of one character
lowerChar(c) ==
    CASE c = "S" -> "s" [] c = "E" -> "e" [] c = "L" -> "l" [] c = "C" -> "c"
      [] c = "T" -> "t" [] c = "U" -> "u" [] c = "P" -> "p" [] c = "D" -> "d"
      [] c = "A" -> "a" [] OTHER -> c

\* String.prototype.toLowerCase
toLowerCase(s) == [i \in 1..Len(s) |-> lowerChar(s[i])]

\* String.prototype.startsWith
startsWith(s, prefix) ==
    Len(s) >= Len(prefix) /\ SubSeq(s, 1, Len(prefix)) = prefix

\* String.prototype.includes
includes(s, sub) ==
    \E i \in 0..(Len(s) - Len(sub)) : SubSeq(s, i + 1, i + Len(sub)) = sub

\* a > b in JavaScript when either side may be undefined
Gt(a, b) == a # Undef /\ b # Undef /\ a > b

\* truthiness of a number that may be undefined
Truthy(n) == n # Undef /\ n # 0

\* --------------------------------------------------------- recommendations
\* a text is the sequence of its parts: a part is a literal string or the
\* decimal rendering of a number
Str(s) == [s |-> s, n |-> Undef]
Num(n) == [s |-> "", n |-> n]

NoParams == [tableName |-> "", rows |-> Undef, type |-> ""]

\* JavaScript values handed to a template
JsObject(fields) == [kind |-> "object", str |-> "", num |-> Undef, fields |-> fields]
JsString(s) == [kind |-> "string", str |-> s, num |-> Undef, fields |-> NoParams]
JsNumber(n) == [kind |-> "number", str |-> "", num |-> n, fields |-> NoParams]

\* ${v} in a template literal
JsToString(v) ==
    IF v.kind = "object" THEN Str("[object Object]")
    ELSE IF v.kind = "string" THEN Str(v.str)
    ELSE IF v.num = Undef THEN Str("undefined")
    ELSE Num(v.num)

\* entries of the translation table: a function of one parameter that
\* interpolates it between pre and post, or a plain string
Fn(pre, post) == [fn |-> TRUE, pre |-> pre, post |-> post]
Plain(text) == [fn |-> FALSE, pre |-> text, post |-> ""]
Null == [fn |-> FALSE, pre |-> "", post |-> ""]

\* translations[lang].analyzer.recommendations[key].message
translations ==
    [en |->
       [tableScan |-> Fn("Full table scan detected on table ", ""),
        accessType |-> Fn("Suboptimal access type '", "' detected"),
        joinOptimization |-> Plain("Inefficient join operation detected"),
        joinBuffer |-> Plain("Join buffer being used for table join"),
        tempTable |-> Plain("Temporary table created for query execution"),
        fileSort |-> Plain("Filesort operation detected"),
        unusedIndexes |-> Plain("Potential indexes not being used"),
        partialIndex |-> Plain("Partial index usage detected"),
        dependentSubquery |-> Plain("Dependent subquery detected"),
        subquery |-> Plain("Uncorrelated subquery detected"),
        groupBy |-> Plain("Inefficient GROUP BY operation detected"),
        looseIndexScan |-> Plain("Potential for loose index scan optimization"),
        largeSort |-> Fn("Large sort operation detected (", " rows)"),
        largeTableScan |-> Fn("Large table scan detected (", " rows)"),
        highIndexRatio |-> Plain("High index to data ratio detected"),
        whereClause |-> Plain("Inefficient WHERE clause processing"),
        distinct |-> Plain("Inefficient DISTINCT operation detected"),
        partitioning |-> Plain("Suboptimal partition pruning detected")],
     id |->
       [tableScan |-> Fn("Full table scan terdeteksi pada tabel ", ""),
        accessType |-> Fn("Tipe akses suboptimal '", "' terdeteksi"),
        joinOptimization |-> Plain("Operasi join tidak efisien terdeteksi"),
        joinBuffer |-> Plain("Buffer join digunakan untuk join tabel"),
        tempTable |-> Plain("Tabel temporary dibuat untuk eksekusi query"),
        fileSort |-> Plain("Operasi filesort terdeteksi"),
        unusedIndexes |-> Plain("Indeks potensial tidak digunakan"),
        partialIndex |-> Plain("Penggunaan indeks parsial terdeteksi"),
        dependentSubquery |-> Plain("Subquery dependen terdeteksi"),
        subquery |-> Plain("Subquery tidak berkorelasi terdeteksi"),
        groupBy |-> Plain("Operasi GROUP BY tidak efisien terdeteksi"),
        looseIndexScan |-> Plain("Potensi untuk optimasi loose index scan"),
        largeSort |-> Fn("Operasi pengurutan besar terdeteksi (", " baris)"),
        largeTableScan |-> Fn("Pemindaian tabel besar terdeteksi (", " baris)"),
        highIndexRatio |-> Plain("Rasio indeks ke data yang tinggi terdeteksi"),
        whereClause |-> Plain("Pemrosesan klausa WHERE tidak efisien"),
        distinct |-> Plain("Operasi DISTINCT tidak efisien terdeteksi"),
        partitioning |-> Plain("Pemangkasan partisi suboptimal terdeteksi")]]

Languages == DOMAIN translations

\* getNestedValue: the entry under the key, null when a step is absent
getNestedValue(obj, key) == IF key \in DOMAIN obj THEN obj[key] ELSE Null

\* the template function value applied to its one argument
ApplyTemplate(value, arg) == <<Str(value.pre), JsToString(arg), Str(value.post)>>

\* i18n.t('analyzer.recommendations.<key>.message', params): a function
\* entry is called with the params object itself, a string entry is
\* returned, and without an entry the key is returned
I18nT(key, params) ==
    LET value == getNestedValue(translations[currentLang], key)
    IN  IF value.fn THEN ApplyTemplate(value, JsObject(params))
        ELSE IF value.pre # "" THEN <<Str(value.pre)>>
        ELSE <<Str("analyzer.recommendations."), Str(key), Str(".message")>>

\* one recommendation object; suggestion and details are texts fixed by the
\* type and are left out
Rec(type, severity, key, params) ==
    [type |-> type, severity |-> severity, message |-> I18nT(key, params)]

\* what one rule did: the recommendations it pushed and whether it threw
Pushed(recs) == [recs |-> recs, threw |-> FALSE]
Threw == [recs |-> <<>>, threw |-> TRUE]

\* ------------------------------------------------ PostgreSQL rule catalog
SeqScan == <<"Seq", "Scan">>
IndexScan == <<"Index", "Scan">>
NestedLoop == <<"Nested", "Loop">>
HashJoin == <<"Hash", "Join">>
CTEScan == <<"CTE", "Scan">>
GroupAggregate == <<"Group", "Aggregate">>
HashAggregate == <<"Hash", "Aggregate">>
Materialize == <<"Materialize">>

pgAnalyzeScanMethods(plan) ==
    Pushed((IF plan.Node_Type = SeqScan
            THEN <<Rec("SEQUENTIAL_SCAN", "HIGH", "sequentialScan",
                       [NoParams EXCEPT !.tableName = plan.RelationName])>>
            ELSE <<>>)
        \o (IF plan.Node_Type = IndexScan /\ Gt(plan.ActualRows, 1000)
               /\ plan.IndexCond = <<>>
            THEN <<Rec("INEFFICIENT_INDEX_SCAN", "MEDIUM", "inefficientIndexScan", NoParams)>>
            ELSE <<>>))

pgAnalyzeJoinOperations(plan) ==
    Pushed((IF plan.Node_Type = NestedLoop /\ Gt(plan.ActualRows, 1000)
            THEN <<Rec("EXPENSIVE_NESTED_LOOP", "HIGH", "expensiveNestedLoop", NoParams)>>
            ELSE <<>>)
        \o (IF plan.Node_Type = HashJoin /\ Gt(plan.HashBatches, 1)
            THEN <<Rec("HASH_SPILL", "MEDIUM", "hashSpill", NoParams)>>
            ELSE <<>>))

pgAnalyzeTemporaryStructures(plan) ==
    Pushed(IF plan.TemporaryFileUsage
           THEN <<Rec("TEMP_FILES", "HIGH", "tempFiles", NoParams)>>
           ELSE <<>>)

\* plan['Hash Cond'].includes: a TypeError when 'Hash Cond' is undefined
pgAnalyzeIndexUsage(plan, idx) ==
    IF plan.Node_Type = HashJoin
    THEN IF plan.HashCond = <<>> THEN Threw
         ELSE Pushed(IF ~includes(plan.HashCond, <<"=">>)
                     THEN <<Rec("MISSING_JOIN_INDEX", "HIGH", "missingJoinIndex", NoParams)>>
                     ELSE <<>>)
    ELSE Pushed(<<>>)

\* mutant: the statistics rule also reads the retrieved table statistics
pgAnalyzeTableStatistics_usingStats(plan, stats) ==
    Pushed((IF Gt(plan.PlanningTime, 1000)
            THEN <<Rec("OUTDATED_STATS", "MEDIUM", "outdatedStats", NoParams)>>
            ELSE <<>>)
        \o (IF \E i \in 1..Len(stats) : stats[i].table_rows > 10000
            THEN <<Rec("LARGE_TABLE_SCAN", "HIGH", "largeTableScan", NoParams)>>
            ELSE <<>>))

pgAnalyzeTableStatistics(plan, stats) ==
    Pushed(IF Gt(plan.PlanningTime, 1000)
           THEN <<Rec("OUTDATED_STATS", "MEDIUM", "outdatedStats", NoParams)>>
           ELSE <<>>)

pgAnalyzeParallelExecution(plan) ==
    Pushed(IF ~Truthy(plan.WorkersPlanned) /\ Gt(plan.TotalCost, 100000)
           THEN <<Rec("MISSED_PARALLEL", "MEDIUM", "missedParallel", NoParams)>>
           ELSE <<>>)

\* plan.Node_Type.includes: a TypeError when Node_Type is undefined
pgAnalyzePartitioning(plan) ==
    IF plan.PartitionsRemoved = 0
    THEN IF plan.Node_Type = <<>> THEN Threw
         ELSE Pushed(IF includes(plan.Node_Type, <<"Partition">>)
                     THEN <<Rec("INEFFECTIVE_PARTITION", "HIGH", "ineffectivePartition", NoParams)>>
                     ELSE <<>>)
    ELSE Pushed(<<>>)

pgAnalyzeCTEUsage(plan) ==
    Pushed(IF plan.Node_Type = CTEScan /\ Gt(plan.ActualRows, 1)
              /\ ~plan.CTEMaterialized
           THEN <<Rec("CTE_MATERIALIZATION", "MEDIUM", "cteMaterialization", NoParams)>>
           ELSE <<>>)

pgAnalyzeAggregationOperations(plan) ==
    Pushed((IF plan.Node_Type = GroupAggregate /\ Gt(plan.ActualRows, 1000)
            THEN <<Rec("INEFFICIENT_AGGREGATE", "MEDIUM", "inefficientAggregate", NoParams)>>
            ELSE <<>>)
        \o (IF plan.Node_Type = HashAggregate
               /\ Gt(plan.PeakMemoryUsage, plan.PeakMemoryAllowed)
            THEN <<Rec("AGGREGATE_SPILL", "HIGH", "aggregateSpill", NoParams)>>
            ELSE <<>>))

pgAnalyzeMaterialization(plan) ==
    Pushed(IF Gt(plan.ActualLoops, 1) /\ plan.Node_Type # Materialize
           THEN <<Rec("MISSED_MATERIALIZATION", "MEDIUM", "missedMaterialization", NoParams)>>
           ELSE <<>>)

\* the k-th call of generateRecommendations on explainResult.Plan; planOpt is
\* <<>> when explainResult has no Plan, and every rule then throws a TypeError
pgRule(k, planOpt, stats, idx) ==
    IF planOpt = <<>> THEN Threw
    ELSE LET plan == planOpt[1]
         IN  CASE k = 1 -> pgAnalyzeScanMethods(plan)
               [] k = 2 -> pgAnalyzeJoinOperations(plan)
               [] k = 3 -> pgAnalyzeTemporaryStructures(plan)
               [] k = 4 -> pgAnalyzeIndexUsage(plan, idx)
               [] k = 5 -> pgAnalyzeTableStatistics(plan, stats)
               [] k = 6 -> pgAnalyzeParallelExecution(plan)
               [] k = 7 -> pgAnalyzePartitioning(plan)
               [] k = 8 -> pgAnalyzeCTEUsage(plan)
               [] k = 9 -> pgAnalyzeAggregationOperations(plan)
               [] k = 10 -> pgAnalyzeMaterialization(plan)

RECURSIVE analyzePlanNode(_)
RECURSIVE analyzeChildren(_)
\* analyzePlanNode: the recursive helper of PostgreAnalyzer; it applies three
\* rules at the node and descends into node.Plans. Nothing calls it.
analyzePlanNode(node) ==
    pgAnalyzeScanMethods(node).recs
    \o pgAnalyzeJoinOperations(node).recs
    \o pgAnalyzeTemporaryStructures(node).recs
    \o analyzeChildren(node.Plans)

analyzeChildren(plans) ==
    IF plans = <<>> THEN <<>>
    ELSE analyzePlanNode(Head(plans)) \o analyzeChildren(Tail(plans))

\* ----------------------------------------------------- MySQL rule catalog
UsingWhere == <<"Using where">>
UsingTemporary == <<"Using temporary">>
UsingFilesort == <<"Using filesort">>
UsingJoinBuffer == <<"Using join buffer">>

\* explainResult.Extra?.includes(text): false when Extra is null or undefined
extraIncludes(row, text) == row.Extra # <<>> /\ includes(row.Extra, text)

myAnalyzeTableAccessMethod(row) ==
    Pushed((IF row.type = "ALL"
            THEN <<Rec("TABLE_SCAN", "HIGH", "tableScan",
                       [NoParams EXCEPT !.tableName = row.table])>>
            ELSE <<>>)
        \o (IF row.type \in {"index", "ALL"}
            THEN <<Rec("ACCESS_TYPE", "MEDIUM", "accessType",
                       [NoParams EXCEPT !.type = row.type])>>
            ELSE <<>>))

myAnalyzeJoinOperations(row) ==
    Pushed((IF row.select_type # "SIMPLE" /\ row.key = ""
            THEN <<Rec("JOIN_OPTIMIZATION", "HIGH", "joinOptimization", NoParams)>>
            ELSE <<>>)
        \o (IF extraIncludes(row, UsingJoinBuffer)
            THEN <<Rec("JOIN_BUFFER", "MEDIUM", "joinBuffer", NoParams)>>
            ELSE <<>>))

\* mutant: the filesort finding itself is escalated instead of a second one
myAnalyzeTemporaryStructures_escalating(row) ==
    Pushed((IF extraIncludes(row, UsingTemporary)
            THEN <<Rec("TEMP_TABLE", "MEDIUM", "tempTable", NoParams)>>
            ELSE <<>>)
        \o (IF extraIncludes(row, UsingFilesort)
            THEN <<Rec("FILE_SORT", IF Gt(row.rows, 1000) THEN "HIGH" ELSE "MEDIUM",
                       "fileSort", NoParams)>>
            ELSE <<>>))

myAnalyzeTemporaryStructures(row) ==
    Pushed((IF extraIncludes(row, UsingTemporary)
            THEN <<Rec("TEMP_TABLE", "MEDIUM", "tempTable", NoParams)>>
            ELSE <<>>)
        \o (IF extraIncludes(row, UsingFilesort)
            THEN <<Rec("FILE_SORT", "MEDIUM", "fileSort", NoParams)>>
            ELSE <<>>))

myAnalyzeIndexUsage(row, idx) ==
    Pushed((IF row.possible_keys # "" /\ row.key = ""
            THEN <<Rec("UNUSED_INDEXES", "MEDIUM", "unusedIndexes", NoParams)>>
            ELSE <<>>)
        \o (IF /\ row.key # "" /\ row.key_len # "" /\ Len(idx) > 0
               /\ \E i \in 1..Len(idx) : idx[i].index_name = row.key
               /\ row.ref # "const"
            THEN <<Rec("PARTIAL_INDEX_USAGE", "LOW", "partialIndex", NoParams)>>
            ELSE <<>>))

\* tableStats.find(stat => stat.table_name === explainResult.table)
findStat(stats, table) ==
    LET hits == {i \in 1..Len(stats) : stats[i].table_name = table}
    IN  IF hits = {} THEN <<>>
        ELSE <<stats[CHOOSE i \in hits : \A j \in hits : i <= j]>>

\* index_length / data_length > 0.5 on numbers that may be undefined; a
\* division by zero gives Infinity (or NaN for 0 / 0)
indexRatioHigh(stat) ==
    /\ stat.index_length # Undef
    /\ stat.data_length # Undef
    /\ IF stat.data_length = 0 THEN stat.index_length > 0
       ELSE 2 * stat.index_length > stat.data_length

myAnalyzeTableStatistics(row, stats) ==
    IF Len(stats) = 0 THEN Pushed(<<>>)
    ELSE LET found == findStat(stats, row.table)
         IN  IF found = <<>> THEN Pushed(<<>>)
             ELSE LET relevantTableStat == found[1]
                  IN  Pushed((IF Gt(relevantTableStat.table_rows, 10000)
                                 /\ row.type = "ALL"
                              THEN <<Rec("LARGE_TABLE_SCAN", "HIGH", "largeTableScan",
                                         [NoParams EXCEPT
                                            !.rows = relevantTableStat.table_rows])>>
                              ELSE <<>>)
                          \o (IF indexRatioHigh(relevantTableStat)
                              THEN <<Rec("HIGH_INDEX_RATIO", "LOW", "highIndexRatio", NoParams)>>
                              ELSE <<>>))

myAnalyzeQueryStructure(row) ==
    Pushed((IF extraIncludes(row, UsingWhere)
            THEN <<Rec("WHERE_CLAUSE", "LOW", "whereClause", NoParams)>>
            ELSE <<>>)
        \o (IF extraIncludes(row, UsingTemporary) /\ extraIncludes(row, UsingFilesort)
            THEN <<Rec("DISTINCT_OPTIMIZATION", "MEDIUM", "distinct", NoParams)>>
            ELSE <<>>))

myAnalyzePartitioning(row) ==
    Pushed(IF row.partitions # <<>> /\ includes(row.partitions, <<",">>)
           THEN <<Rec("PARTITION_PRUNING", "MEDIUM", "partitioning", NoParams)>>
           ELSE <<>>)

myAnalyzeSubqueries(row) ==
    Pushed((IF row.select_type = "DEPENDENT SUBQUERY"
            THEN <<Rec("DEPENDENT_SUBQUERY", "HIGH", "dependentSubquery", NoParams)>>
            ELSE <<>>)
        \o (IF row.select_type = "SUBQUERY"
            THEN <<Rec("SUBQUERY_OPTIMIZATION", "MEDIUM", "subquery", NoParams)>>
            ELSE <<>>))


myAnalyzeSortOperations(row) ==
    Pushed((IF extraIncludes(row, UsingFilesort) /\ Gt(row.rows, 1000)
            THEN <<Rec("LARGE_SORT", "HIGH", "largeSort",
                       [NoParams EXCEPT !.rows = row.rows])>>
            ELSE <<>>)
        \o (IF extraIncludes(row, UsingFilesort) /\ row.key # ""
            THEN <<Rec("MULTI_COLUMN_SORT", "MEDIUM", "multiColumnSort", NoParams)>>
            ELSE <<>>))

myAnalyzeGroupOperations(row) ==
    Pushed((IF /\ extraIncludes(row, UsingTemporary)
               /\ extraIncludes(row, UsingFilesort)
               /\ row.key = ""
            THEN <<Rec("GROUP_BY_OPTIMIZATION", "HIGH", "groupBy", NoParams)>>
            ELSE <<>>)
        \o (IF /\ extraIncludes(row, UsingWhere)
               /\ extraIncludes(row, UsingTemporary)
               /\ row.key # ""
            THEN <<Rec("LOOSE_INDEX_SCAN", "MEDIUM", "looseIndexScan", NoParams)>>
            ELSE <<>>))

\* the k-th call of generateRecommendations on the EXPLAIN row
myRule(k, row, stats, idx) ==
    CASE k = 1 -> myAnalyzeTableAccessMethod(row)
      [] k = 2 -> myAnalyzeJoinOperations(row)
      [] k = 3 -> myAnalyzeTemporaryStructures(row)
      [] k = 4 -> myAnalyzeIndexUsage(row, idx)
      [] k = 5 -> myAnalyzeTableStatistics(row, stats)
      [] k = 6 -> myAnalyzeQueryStructure(row)
      [] k = 7 -> myAnalyzePartitioning(row)
      [] k = 8 -> myAnalyzeSubqueries(row)
      [] k = 9 -> myAnalyzeSortOperations(row)
      [] k = 10 -> myAnalyzeGroupOperations(row)

\* ------------------------------------------------ generateRecommendations
\* number of rule calls in generateRecommendations
NumRules == 10

\* the k-th rule call of the engine on the plan object x
Rule(e, k, x, stats, idx) ==
    IF e = "pg" THEN pgRule(k, x.Plan, stats, idx) ELSE myRule(k, x, stats, idx)

RECURSIVE RunRules_discarding(_, _, _, _, _, _)
\* mutant: a rule exception discards what the earlier rules found
RunRules_discarding(e, k, x, stats, idx, acc) ==
    IF k > NumRules THEN [recs |-> acc, threw |-> FALSE]
    ELSE LET r == Rule(e, k, x, stats, idx)
         IN  IF r.threw THEN [recs |-> <<>>, threw |-> TRUE]
             ELSE RunRules_discarding(e, k + 1, x, stats, idx, acc \o r.recs)

RECURSIVE RunRules(_, _, _, _, _, _)
\* the body of the try block from the k-th call on: the calls run in order,
\* each pushing onto acc, and the first one that throws ends the block
RunRules(e, k, x, stats, idx, acc) ==
    IF k > NumRules THEN [recs |-> acc, threw |-> FALSE]
    ELSE LET r == Rule(e, k, x, stats, idx)
         IN  IF r.threw THEN [recs |-> acc \o r.recs, threw |-> TRUE]
             ELSE RunRules(e, k + 1, x, stats, idx, acc \o r.recs)

\* mutant: the collected list is returned in catalog order
generateRecommendations_unsorted(e, explainResultOpt, stats, idx) ==
    IF explainResultOpt = <<>>
    THEN [recommendations |-> <<>>, warned |-> FALSE]
    ELSE LET run == RunRules(e, 1, explainResultOpt[1], stats, idx, <<>>)
         IN  [recommendations |-> run.recs, warned |-> run.threw]

\* generateRecommendations(explainResult, tableStats, indexes): the list it
\* returns and whether its catch block logged a warning
generateRecommendations(e, explainResultOpt, stats, idx) ==
    IF explainResultOpt = <<>>
    THEN [recommendations |-> <<>>, warned |-> FALSE]
    ELSE LET run == RunRules(e, 1, explainResultOpt[1], stats, idx, <<>>)
         IN  [recommendations |-> prioritizeRecommendations(e, run.recs).returned,
              warned |-> run.threw]

\* ------------------------------------------------------------- validation
Select == <<"s", "e", "l", "e", "c", "t">>

\* the "Validate query" block of analyze: the Error it throws, or the
\* trimmed query text
validate(q) ==
    IF q.type # "string" \/ q.text = <<>>
    THEN [ok |-> FALSE, message |-> <<"Invalid query provided">>, trimmed |-> <<>>]
    ELSE IF trim(q.text) = <<>>
    THEN [ok |-> FALSE, message |-> <<"Empty query provided">>, trimmed |-> <<>>]
    ELSE IF ~startsWith(toLowerCase(trim(q.text)), Select)
    THEN [ok |-> FALSE, message |-> <<"Only SELECT queries can be analyzed">>,
          trimmed |-> <<>>]
    ELSE [ok |-> TRUE, message |-> <<>>, trimmed |-> trim(q.text)]

\* the outer catch block: throw new Error(`<engine> Analysis Error: ${message}`)
AnalysisError(e, message) ==
    <<IF e = "pg" THEN "PostgreSQL Analysis Error: " ELSE "MySQL Analysis Error: ">>
    \o message

\* mutant: a plan-retrieval error that drops the message of its cause
PlanError_noCause(cause) == <<"Failed to get execution plan: ">>

\* the inner catch block: new Error(`Failed to get execution plan: ${message}`)
PlanError(cause) == <<"Failed to get execution plan: ", cause>>

\* mutant: the plan of a MySQL query is the last row of the EXPLAIN output
extractPlan_lastRow(e, rows) ==
    IF e = "mysql"
    THEN [threw |-> FALSE, value |-> IF rows = <<>> THEN <<>> ELSE <<rows[Len(rows)]>>]
    ELSE IF rows = <<>> THEN [threw |-> TRUE, value |-> <<>>]
    ELSE [threw |-> FALSE,
          value |-> IF rows[1].QUERY_PLAN = <<>> THEN <<>>
                    ELSE <<rows[1].QUERY_PLAN[1]>>]

\* mutant: a payload without plan object or node type is rejected
extractPlan_rejecting(e, rows) ==
    IF rows = <<>> THEN [threw |-> TRUE, value |-> <<>>]
    ELSE IF e = "mysql"
    THEN [threw |-> rows[1].type = "", value |-> <<rows[1]>>]
    ELSE IF rows[1].QUERY_PLAN = <<>> \/ rows[1].QUERY_PLAN[1].Plan = <<>>
    THEN [threw |-> TRUE, value |-> <<>>]
    ELSE [threw |-> rows[1].QUERY_PLAN[1].Plan[1].Node_Type = <<>>,
          value |-> <<rows[1].QUERY_PLAN[1]>>]

\* explainResult out of the rows of the EXPLAIN query: rows[0] for MySQL,
\* rows[0]['QUERY PLAN'][0] for PostgreSQL, which throws a TypeError on an
\* empty result
extractPlan(e, rows) ==
    IF e = "mysql"
    THEN [threw |-> FALSE, value |-> IF rows = <<>> THEN <<>> ELSE <<rows[1]>>]
    ELSE IF rows = <<>> THEN [threw |-> TRUE, value |-> <<>>]
    ELSE [threw |-> FALSE,
          value |-> IF rows[1].QUERY_PLAN = <<>> THEN <<>>
                    ELSE <<rows[1].QUERY_PLAN[1]>>]

TypeErrorMessage == "Cannot read properties of undefined"

\* ---------------------------------------------- inputs of the pure function
Severities == {"HIGH", "MEDIUM", "LOW"}

\* two listed and two unlisted types of each engine
SampleTypes(e) ==
    IF e = "pg"
    THEN {"SEQUENTIAL_SCAN", "AGGREGATE_SPILL", "HASH_SPILL", "MISSED_PARALLEL"}
    ELSE {"TABLE_SCAN", "LARGE_SORT", "ACCESS_TYPE", "WHERE_CLAUSE"}

SampleRecs(e) ==
    [type : SampleTypes(e), severity : Severities,
     message : {<<Str("m")>>}]

SeqsUpTo(S, n) == UNION {[1..k -> S] : k \in 0..n}

\* ------------------------------------------------------------------ inputs
\* most children of one plan node in the sampled plans
MaxChildren == 2

StringQuery(text) == [type |-> "string", text |-> text]

Queries ==
    { [type |-> "null", text |-> <<>>],
      [type |-> "number", text |-> <<>>],
      StringQuery(<<>>),
      StringQuery(<<" ", " ", " ">>),
      StringQuery(<<"\t", "\n">>),
      StringQuery(<<" ", "S", "e", "L", "E", "C", "T", " ", "1", "\n">>),
      StringQuery(<<"U", "P", "D", "A", "T", "E", " ", "t">>),
      StringQuery(<<"s", "e", "l", "e", "c">>),
      StringQuery(<<"x", " ", "s", "e", "l", "e", "c", "t">>) }

Causes == {"ECONNREFUSED", "timeout"}

PgBase ==
    [Node_Type |-> <<>>, RelationName |-> "", ActualRows |-> Undef,
     IndexCond |-> <<>>, HashBatches |-> Undef, TemporaryFileUsage |-> FALSE,
     HashCond |-> <<>>, PlanningTime |-> Undef, WorkersPlanned |-> Undef,
     TotalCost |-> Undef, PartitionsRemoved |-> Undef, CTEMaterialized |-> FALSE,
     PeakMemoryUsage |-> Undef, PeakMemoryAllowed |-> Undef,
     ActualLoops |-> Undef, Plans |-> <<>>]

PgNodeTypes ==
    {<<>>, SeqScan, IndexScan, NestedLoop, HashJoin, CTEScan, GroupAggregate,
     HashAggregate, Materialize, <<"Partition", "Scan">>, <<"Result">>}

\* combinations of the remaining fields of a plan node
PgProfile(n, p) ==
    CASE p = 0 -> n
      [] p = 1 -> [n EXCEPT !.HashBatches = 2, !.HashCond = <<"a", "=", "b">>]
      [] p = 2 -> [n EXCEPT !.HashBatches = 2, !.ActualLoops = 3]
      [] p = 3 -> [n EXCEPT !.HashBatches = 1, !.HashCond = <<"a", "<", "b">>]
      [] p = 4 -> [n EXCEPT !.TemporaryFileUsage = TRUE, !.PlanningTime = 2000,
                            !.TotalCost = 200000,
                            !.HashCond = <<"a", "=", "b">>]
      [] p = 5 -> [n EXCEPT !.PartitionsRemoved = 0, !.ActualLoops = 3,
                            !.HashCond = <<"a", "=", "b">>]
      [] p = 6 -> [n EXCEPT !.PartitionsRemoved = 2, !.WorkersPlanned = 2,
                            !.TotalCost = 200000, !.CTEMaterialized = TRUE,
                            !.PeakMemoryUsage = 10, !.PeakMemoryAllowed = 5,
                            !.HashCond = <<"a", "=", "b">>]
      [] p = 7 -> [n EXCEPT !.PeakMemoryUsage = 5, !.PeakMemoryAllowed = 10,
                            !.ActualLoops = 1, !.IndexCond = <<"id", "=", "1">>,
                            !.HashCond = <<"a", "=", "b">>]

PgLeaves ==
    { PgProfile([PgBase EXCEPT !.Node_Type = t,
                               !.RelationName = IF t = SeqScan THEN "orders" ELSE "",
                               !.ActualRows = r], p) :
          t \in PgNodeTypes, r \in {Undef, 500, 5000}, p \in 0..7 }

PgSeqScanLeaf == [PgBase EXCEPT !.Node_Type = SeqScan, !.RelationName = "orders"]

PgChildSamples ==
    { PgSeqScanLeaf,
      [PgBase EXCEPT !.Node_Type = IndexScan, !.ActualRows = 5000],
      [PgBase EXCEPT !.Node_Type = <<"Hash">>, !.TemporaryFileUsage = TRUE],
      [PgBase EXCEPT !.Node_Type = NestedLoop, !.ActualRows = 5000,
                     !.Plans = <<PgSeqScanLeaf>>] }

PgRootSamples ==
    { PgProfile([PgBase EXCEPT !.Node_Type = HashJoin], 1),
      PgProfile([PgBase EXCEPT !.Node_Type = HashJoin], 2),
      [PgBase EXCEPT !.Node_Type = NestedLoop, !.ActualRows = 5000],
      [PgBase EXCEPT !.Node_Type = <<"Result">>] }

PgTrees ==
    { [r EXCEPT !.Plans = kids] :
          r \in PgRootSamples,
          kids \in SeqsUpTo(PgChildSamples, MaxChildren) \ {<<>>} }

PgExplainResults ==
    {[Plan |-> <<>>]} \cup {[Plan |-> <<n>>] : n \in PgLeaves \cup PgTrees}

PgResponses ==
    {<<>>, <<[QUERY_PLAN |-> <<>>]>>}
    \cup {<<[QUERY_PLAN |-> <<x>>]>> : x \in PgExplainResults}

MyKeyProfile(row, p) ==
    CASE p = 0 -> row
      [] p = 1 -> [row EXCEPT !.possible_keys = "idx_a"]
      [] p = 2 -> [row EXCEPT !.possible_keys = "idx_a", !.key = "idx_a",
                              !.key_len = "4", !.ref = "const"]
      [] p = 3 -> [row EXCEPT !.possible_keys = "idx_a", !.key = "idx_a",
                              !.key_len = "4", !.ref = "db.t.id"]

MyShape(row, p) ==
    CASE p = 0 -> [row EXCEPT !.rows = 1000]
      [] p = 1 -> [row EXCEPT !.rows = 5000]
      [] p = 2 -> [row EXCEPT !.rows = 5000, !.partitions = <<"p0", ",", "p1">>]

MyBase ==
    [type |-> "", table |-> "orders", select_type |-> "SIMPLE", key |-> "",
     possible_keys |-> "", key_len |-> "", ref |-> "", Extra |-> <<>>,
     partitions |-> <<>>, rows |-> Undef]

MyExtras ==
    {<<>>, UsingWhere, UsingTemporary \o <<"; ">> \o UsingFilesort,
     UsingWhere \o <<"; ">> \o UsingTemporary, UsingFilesort,
     UsingWhere \o <<"; ">> \o UsingJoinBuffer}

MyRows ==
    { MyShape(MyKeyProfile([MyBase EXCEPT !.type = t, !.select_type = st,
                                          !.Extra = x], k), s) :
          t \in {"ALL", "index", "ref"},
          st \in {"SIMPLE", "SUBQUERY", "DEPENDENT SUBQUERY"},
          x \in MyExtras, k \in 0..3, s \in 0..2 }

MySecondRows ==
    { [MyBase EXCEPT !.type = "ALL", !.table = "items"],
      [MyBase EXCEPT !.type = "ref", !.select_type = "SUBQUERY"] }

MyFirstRows ==
    { [MyBase EXCEPT !.type = "ALL", !.rows = 5000],
      [MyBase EXCEPT !.type = "ref", !.rows = 500, !.key = "idx_a",
                     !.key_len = "4", !.ref = "const"] }

\* EXPLAIN rows without an access type
MyUntypedRows ==
    { MyBase,
      [MyBase EXCEPT !.Extra = UsingTemporary \o <<"; ">> \o UsingFilesort,
                     !.rows = 5000] }

MyResponses ==
    {<<>>} \cup {<<r>> : r \in MyRows \cup MyUntypedRows}
    \cup {<<r1, r2>> : r1 \in MyFirstRows, r2 \in MySecondRows}

Responses(e) == IF e = "pg" THEN PgResponses ELSE MyResponses

Stat(name, rows, data, index) ==
    [table_name |-> name, table_rows |-> rows, data_length |-> data,
     index_length |-> index]

StatsRows ==
    { <<>>,
      <<Stat("orders", 50000, 1000000, 600000)>>,
      <<Stat("orders", 5000, 1000000, 100000)>>,
      <<Stat("items", 50000, 0, 10), Stat("orders", 20000, 1000, 500)>> }

IndexRows ==
    { <<>>,
      <<[table_name |-> "orders", index_name |-> "idx_b"],
        [table_name |-> "orders", index_name |-> "idx_a"],
        [table_name |-> "orders", index_name |-> "idx_a"]>> }

\* ------------------------------------------------------------ analyze(query)
\* rows is the number of rows a successful query returned
IoEntry(op, ok, cause) == [op |-> op, ok |-> ok, cause |-> cause, rows |-> 0]

IoQuery(op, rows) == [IoEntry(op, TRUE, "") EXCEPT !.rows = Len(rows)]

AnalyzeIdle ==
    /\ pc = "idle"
    /\ query = [type |-> "null", text |-> <<>>]
    /\ trimmedQuery = <<>>
    /\ client = "none"
    /\ explainResult = <<>>
    /\ tableStats = <<>>
    /\ indexes = <<>>
    /\ result = <<>>
    /\ error = <<>>
    /\ outcome = "none"
    /\ io = <<>>
    /\ warnings = <<>>

PrioritizeIdle ==
    /\ pEngine = "pg"
    /\ pInput = <<>>
    /\ pArray = <<>>
    /\ pOutput = <<>>
    /\ pCalled = FALSE

\* ------------------------------------------------ two overlapping analyze calls
\* analyze declares client / connection, trimmedQuery, explainResult,
\* tableStats and indexes with let and const: every call has its own. What
\* the calls share is the analyzer object (config, i18n) and the logger.
CallIds == {"a", "b"}

NoResponses == [connect |-> <<>>, explain |-> <<>>, stats |-> <<>>, indexes |-> <<>>]

Response(ok, cause, rows) == [ok |-> ok, cause |-> cause, rows |-> rows]

\* the local variables of a call that has not started
NoCall ==
    [pc |-> "idle", query |-> [type |-> "null", text |-> <<>>],
     trimmedQuery |-> <<>>, client |-> "none", explainResult |-> <<>>,
     tableStats |-> <<>>, indexes |-> <<>>, result |-> <<>>, error |-> <<>>,
     outcome |-> "none", responses |-> NoResponses]

ConcIdle == calls = [c \in CallIds |-> NoCall]

\* an analyzer of either class has been constructed
\* ------------------------------------------------------- testConnection
TestIdle ==
    /\ dbType = "MySQL"
    /\ tcPc = "idle"
    /\ connection = "undefined"
    /\ catalog = <<>>
    /\ dbList = <<>>
    /\ tcError = <<>>
    /\ tcOutcome = "none"
    /\ spinner = "idle"
    /\ mainNext = "none"
    /\ tcIo = <<>>

Init ==
    /\ currentLang \in Languages
    /\ engine \in Engines
    /\ AnalyzeIdle
    /\ PrioritizeIdle
    /\ ConcIdle
    /\ TestIdle

\* analyze(q) is called: the pool / connection is created and the connect
\* is awaited
Call(q) ==
    /\ pc = "idle"
    /\ pc' = "connecting"
    /\ query' = q
    /\ UNCHANGED <<currentLang, engine, trimmedQuery, client, explainResult, tableStats,
                   indexes, result, error, outcome, io, warnings>>
    /\ UNCHANGED <<pvars, calls, tvars>>

\* the connect succeeds; the query is validated and, when valid, the EXPLAIN
\* query is sent
ConnectOk ==
    /\ pc = "connecting"
    /\ client' = "held"
    /\ io' = Append(io, IoEntry("connect", TRUE, ""))
    /\ LET v == validate(query)
       IN  IF v.ok
           THEN /\ trimmedQuery' = v.trimmed
                /\ pc' = "explain"
                /\ UNCHANGED error
           ELSE /\ error' = AnalysisError(engine, v.message)
                /\ pc' = "finally"
                /\ UNCHANGED trimmedQuery
    /\ UNCHANGED <<currentLang, engine, query, explainResult, tableStats, indexes, result,
                   outcome, warnings>>
    /\ UNCHANGED <<pvars, calls, tvars>>

\* the connect fails: the outer catch wraps the error, and the finally block
\* has no client to release
ConnectFail(cause) ==
    /\ pc = "connecting"
    /\ io' = Append(io, IoEntry("connect", FALSE, cause))
    /\ error' = AnalysisError(engine, <<cause>>)
    /\ pc' = "done"
    /\ outcome' = "thrown"
    /\ UNCHANGED <<currentLang, engine, query, trimmedQuery, client, explainResult,
                   tableStats, indexes, result, warnings>>
    /\ UNCHANGED <<pvars, calls, tvars>>

\* the EXPLAIN query returns rows; the statistics query is sent
ExplainOk(rows) ==
    /\ pc = "explain"
    /\ io' = Append(io, IoQuery("explain", rows))
    /\ LET x == extractPlan(engine, rows)
       IN  IF x.threw
           THEN /\ error' = AnalysisError(engine, PlanError(TypeErrorMessage))
                /\ pc' = "finally"
                /\ UNCHANGED explainResult
           ELSE /\ explainResult' = x.value
                /\ pc' = "stats"
                /\ UNCHANGED error
    /\ UNCHANGED <<currentLang, engine, query, trimmedQuery, client, tableStats, indexes,
                   result, outcome, warnings>>
    /\ UNCHANGED <<pvars, calls, tvars>>

\* mutant: a failed EXPLAIN query is absorbed and the statistics query is sent
ExplainFail_continuing(cause) ==
    /\ pc = "explain"
    /\ io' = Append(io, IoEntry("explain", FALSE, cause))
    /\ error' = AnalysisError(engine, PlanError(cause))
    /\ pc' = "stats"
    /\ UNCHANGED <<currentLang, engine, query, trimmedQuery, client, explainResult,
                   tableStats, indexes, result, outcome, warnings>>
    /\ UNCHANGED <<pvars, calls, tvars>>

\* the EXPLAIN query fails
ExplainFail(cause) ==
    /\ pc = "explain"
    /\ io' = Append(io, IoEntry("explain", FALSE, cause))
    /\ error' = AnalysisError(engine, PlanError(cause))
    /\ pc' = "finally"
    /\ UNCHANGED <<currentLang, engine, query, trimmedQuery, client, explainResult,
                   tableStats, indexes, result, outcome, warnings>>
    /\ UNCHANGED <<pvars, calls, tvars>>

\* the statistics query returns rows; the index query is sent
StatsOk(rows) ==
    /\ pc = "stats"
    /\ io' = Append(io, IoQuery("stats", rows))
    /\ tableStats' = rows
    /\ pc' = "indexes"
    /\ UNCHANGED <<currentLang, engine, query, trimmedQuery, client, explainResult, indexes,
                   result, error, outcome, warnings>>
    /\ UNCHANGED <<pvars, calls, tvars>>

\* mutant: a failed statistics query that ends the analysis
StatsFail_fatal(cause) ==
    /\ pc = "stats"
    /\ io' = Append(io, IoEntry("stats", FALSE, cause))
    /\ error' = AnalysisError(engine, <<cause>>)
    /\ pc' = "finally"
    /\ UNCHANGED <<currentLang, engine, query, trimmedQuery, client, explainResult,
                   tableStats, indexes, result, outcome, warnings>>
    /\ UNCHANGED <<pvars, calls, tvars>>

\* mutant: a failed statistics query is issued again
StatsFail_retry(cause) ==
    /\ pc = "stats"
    /\ io' = Append(io, IoEntry("stats", FALSE, cause))
    /\ warnings' = Append(warnings, <<"Failed to get table statistics:", cause>>)
    /\ pc' = IF \E i \in 1..Len(io) : io[i].op = "stats" THEN "indexes" ELSE "stats"
    /\ UNCHANGED <<currentLang, engine, query, trimmedQuery, client, explainResult,
                   tableStats, indexes, result, error, outcome>>
    /\ UNCHANGED <<pvars, calls, tvars>>

\* the statistics query fails: logged, tableStats stays []
StatsFail(cause) ==
    /\ pc = "stats"
    /\ io' = Append(io, IoEntry("stats", FALSE, cause))
    /\ warnings' = Append(warnings, <<"Failed to get table statistics:", cause>>)
    /\ pc' = "indexes"
    /\ UNCHANGED <<currentLang, engine, query, trimmedQuery, client, explainResult,
                   tableStats, indexes, result, error, outcome>>
    /\ UNCHANGED <<pvars, calls, tvars>>

\* the rest of the try block once indexes is known: recommendations are
\* generated and the result object is built
Finish(idx, log) ==
    LET g == generateRecommendations(engine, explainResult, tableStats, idx)
    IN  /\ indexes' = idx
        /\ warnings' = log \o (IF g.warned
                               THEN <<<<"analyzer.errors.recommendations", "TypeError">>>>
                               ELSE <<>>)
        /\ result' = <<[query |-> trimmedQuery,
                        executionPlan |-> explainResult,
                        tableStatistics |-> tableStats,
                        indexes |-> idx,
                        recommendations |-> g.recommendations]>>
        /\ pc' = "finally"

\* the index query returns rows
IndexesOk(rows) ==
    /\ pc = "indexes"
    /\ io' = Append(io, IoQuery("indexes", rows))
    /\ Finish(rows, warnings)
    /\ UNCHANGED <<currentLang, engine, query, trimmedQuery, client, explainResult,
                   tableStats, error, outcome>>
    /\ UNCHANGED <<pvars, calls, tvars>>

\* the index query fails: logged, indexes stays []
IndexesFail(cause) ==
    /\ pc = "indexes"
    /\ io' = Append(io, IoEntry("indexes", FALSE, cause))
    /\ Finish(<<>>, Append(warnings, <<"Failed to get index information:", cause>>))
    /\ UNCHANGED <<currentLang, engine, query, trimmedQuery, client, explainResult,
                   tableStats, error, outcome>>
    /\ UNCHANGED <<pvars, calls, tvars>>

\* how the call completes once the finally block is through
Completion == IF error # <<>> THEN "thrown" ELSE "returned"

\* mutant: a cleanup written after the try block, reached on success only
ReleaseOk_successOnly ==
    /\ pc = "finally"
    /\ client = "held"
    /\ io' = IF error = <<>> THEN Append(io, IoEntry("release", TRUE, "")) ELSE io
    /\ client' = IF error = <<>> THEN "released" ELSE client
    /\ outcome' = Completion
    /\ pc' = "done"
    /\ UNCHANGED <<currentLang, engine, query, trimmedQuery, explainResult, tableStats,
                   indexes, result, error, warnings>>
    /\ UNCHANGED <<pvars, calls, tvars>>

\* the finally block: client.release() / connection.end() returns
ReleaseOk ==
    /\ pc = "finally"
    /\ client = "held"
    /\ io' = Append(io, IoEntry("release", TRUE, ""))
    /\ client' = "released"
    /\ outcome' = Completion
    /\ pc' = "done"
    /\ UNCHANGED <<currentLang, engine, query, trimmedQuery, explainResult, tableStats,
                   indexes, result, error, warnings>>
    /\ UNCHANGED <<pvars, calls, tvars>>

\* mutant: an error thrown by the release replaces the outcome of the call
ReleaseFail_propagating(cause) ==
    /\ pc = "finally"
    /\ client = "held"
    /\ io' = Append(io, IoEntry("release", FALSE, cause))
    /\ client' = "releaseFailed"
    /\ error' = AnalysisError(engine, <<cause>>)
    /\ outcome' = "thrown"
    /\ pc' = "done"
    /\ UNCHANGED <<currentLang, engine, query, trimmedQuery, explainResult, tableStats,
                   indexes, result, warnings>>
    /\ UNCHANGED <<pvars, calls, tvars>>

\* the finally block: the release throws, which is logged and swallowed
ReleaseFail(cause) ==
    /\ pc = "finally"
    /\ client = "held"
    /\ io' = Append(io, IoEntry("release", FALSE, cause))
    /\ client' = "releaseFailed"
    /\ warnings' = Append(warnings,
                          <<IF engine = "pg" THEN "Error releasing client:"
                            ELSE "Error closing connection:", cause>>)
    /\ outcome' = Completion
    /\ pc' = "done"
    /\ UNCHANGED <<currentLang, engine, query, trimmedQuery, explainResult, tableStats,
                   indexes, result, error>>
    /\ UNCHANGED <<pvars, calls, tvars>>

Next ==
    \/ \E q \in Queries : Call(q)
    \/ ConnectOk
    \/ \E c \in Causes : ConnectFail(c)
    \/ pc = "explain" /\ \E rows \in Responses(engine) : ExplainOk(rows)
    \/ \E c \in Causes : ExplainFail(c)
    \/ \E rows \in StatsRows : StatsOk(rows)
    \/ StatsFail("timeout")
    \/ \E rows \in IndexRows : IndexesOk(rows)
    \/ IndexesFail("timeout")
    \/ ReleaseOk
    \/ ReleaseFail("timeout")

Spec == Init /\ [][Next]_vars

\* --------------------------------------------------------- specification P
InitPrioritize ==
    /\ currentLang = "en"
    /\ engine = "pg"
    /\ AnalyzeIdle
    /\ pEngine \in Engines
    /\ pInput \in SeqsUpTo(SampleRecs(pEngine), MaxRecs)
    /\ pArray = pInput
    /\ pOutput = <<>>
    /\ pCalled = FALSE
    /\ ConcIdle
    /\ TestIdle

\* one call of prioritizeRecommendations on the caller's array
Prioritize ==
    /\ ~pCalled
    /\ LET r == prioritizeRecommendations(pEngine, pArray)
       IN  /\ pArray' = r.array
           /\ pOutput' = r.returned
    /\ pCalled' = TRUE
    /\ UNCHANGED <<pEngine, pInput>>
    /\ UNCHANGED <<avars, calls, tvars>>

NextPrioritize == Prioritize

SpecPrioritize == InitPrioritize /\ [][NextPrioritize]_vars

\* -------------------------------------------- specification of two calls
\* queries, plans and metadata rows the overlapping calls are run on
ConcQueries ==
    { StringQuery(<<" ", "S", "E", "L", "E", "C", "T", " ", "1", "\n">>),
      StringQuery(<<"U", "P", "D", "A", "T", "E", " ", "t">>) }

ConcResponses(e) ==
    IF e = "pg"
    THEN { <<>>,
           <<[QUERY_PLAN |-> <<[Plan |-> <<PgSeqScanLeaf>>]>>]>>,
           <<[QUERY_PLAN |-> <<[Plan |-> <<PgProfile(PgBase, 5)>>]>>]>> }
    ELSE { <<>>,
           <<[MyBase EXCEPT !.type = "ALL", !.rows = 5000]>>,
           <<[MyBase EXCEPT !.type = "ref", !.rows = 5000,
                            !.Extra = UsingFilesort]>> }

ConcStatsRows == {<<Stat("orders", 50000, 1000000, 600000)>>}

ConcIndexRows == {<<[table_name |-> "orders", index_name |-> "idx_a"]>>}

\* the variables of the single-call specification and of the prioritizer
seqvars == <<pc, query, trimmedQuery, client, explainResult, tableStats,
             indexes, result, error, outcome, io>>

\* call c moves to the local state r and has received the response of op
Step(c, r, op, resp) ==
    /\ calls' = [calls EXCEPT ![c] = [r EXCEPT !.responses[op] = <<resp>>]]
    /\ UNCHANGED <<currentLang, engine, seqvars, pvars, tvars>>

ConcCall(c, q) ==
    /\ calls[c].pc = "idle"
    /\ calls' = [calls EXCEPT ![c].pc = "connecting", ![c].query = q]
    /\ UNCHANGED <<currentLang, engine, seqvars, pvars, tvars, warnings>>

ConcConnectOk(c) ==
    /\ calls[c].pc = "connecting"
    /\ LET v == validate(calls[c].query)
       IN  Step(c, IF v.ok
                   THEN [calls[c] EXCEPT !.client = "held", !.pc = "explain",
                                         !.trimmedQuery = v.trimmed]
                   ELSE [calls[c] EXCEPT !.client = "held", !.pc = "finally",
                                         !.error = AnalysisError(engine, v.message)],
                "connect", Response(TRUE, "", <<>>))
    /\ UNCHANGED warnings

ConcConnectFail(c, cause) ==
    /\ calls[c].pc = "connecting"
    /\ Step(c, [calls[c] EXCEPT !.pc = "done", !.outcome = "thrown",
                                !.error = AnalysisError(engine, <<cause>>)],
            "connect", Response(FALSE, cause, <<>>))
    /\ UNCHANGED warnings

ConcExplainOk(c, rows) ==
    /\ calls[c].pc = "explain"
    /\ LET x == extractPlan(engine, rows)
       IN  Step(c, IF x.threw
                   THEN [calls[c] EXCEPT !.pc = "finally",
                            !.error = AnalysisError(engine, PlanError(TypeErrorMessage))]
                   ELSE [calls[c] EXCEPT !.pc = "stats", !.explainResult = x.value],
                "explain", Response(TRUE, "", rows))
    /\ UNCHANGED warnings

ConcExplainFail(c, cause) ==
    /\ calls[c].pc = "explain"
    /\ Step(c, [calls[c] EXCEPT !.pc = "finally",
                                !.error = AnalysisError(engine, PlanError(cause))],
            "explain", Response(FALSE, cause, <<>>))
    /\ UNCHANGED warnings

ConcStatsOk(c, rows) ==
    /\ calls[c].pc = "stats"
    /\ Step(c, [calls[c] EXCEPT !.pc = "indexes", !.tableStats = rows],
            "stats", Response(TRUE, "", rows))
    /\ UNCHANGED warnings

ConcStatsFail(c, cause) ==
    /\ calls[c].pc = "stats"
    /\ Step(c, [calls[c] EXCEPT !.pc = "indexes"],
            "stats", Response(FALSE, cause, <<>>))
    /\ warnings' = Append(warnings, <<"Failed to get table statistics:", cause>>)

\* mutant: the plan is kept in a field of the analyzer object, where the plan
\* of the other call replaces it
ConcPlan_shared(c) ==
    IF \E d \in CallIds \ {c} : calls[d].explainResult # <<>>
    THEN calls[CHOOSE d \in CallIds \ {c} : calls[d].explainResult # <<>>].explainResult
    ELSE calls[c].explainResult

\* the explainResult the call reads when it builds its result
ConcPlan(c) == calls[c].explainResult

\* the rest of the try block of call c once its indexes is known
ConcFinish(c, idx, log, resp) ==
    LET g == generateRecommendations(engine, ConcPlan(c), calls[c].tableStats, idx)
    IN  /\ Step(c, [calls[c] EXCEPT
                       !.pc = "finally",
                       !.indexes = idx,
                       !.result = <<[query |-> calls[c].trimmedQuery,
                                     executionPlan |-> ConcPlan(c),
                                     tableStatistics |-> calls[c].tableStats,
                                     indexes |-> idx,
                                     recommendations |-> g.recommendations]>>],
                "indexes", resp)
        /\ warnings' = log \o (IF g.warned
                               THEN <<<<"analyzer.errors.recommendations", "TypeError">>>>
                               ELSE <<>>)

ConcIndexesOk(c, rows) ==
    /\ calls[c].pc = "indexes"
    /\ ConcFinish(c, rows, warnings, Response(TRUE, "", rows))

ConcIndexesFail(c, cause) ==
    /\ calls[c].pc = "indexes"
    /\ ConcFinish(c, <<>>,
                  Append(warnings, <<"Failed to get index information:", cause>>),
                  Response(FALSE, cause, <<>>))

\* the finally block of call c: its own client is released
ConcReleaseOk(c) ==
    /\ calls[c].pc = "finally"
    /\ calls[c].client = "held"
    /\ calls' = [calls EXCEPT ![c].pc = "done", ![c].client = "released",
                    ![c].outcome = IF calls[c].error # <<>> THEN "thrown"
                                   ELSE "returned"]
    /\ UNCHANGED <<currentLang, engine, seqvars, pvars, tvars, warnings>>

\* the finally block of call c: the release of its client throws
ConcReleaseFail(c, cause) ==
    /\ calls[c].pc = "finally"
    /\ calls[c].client = "held"
    /\ calls' = [calls EXCEPT ![c].pc = "done", ![c].client = "releaseFailed",
                    ![c].outcome = IF calls[c].error # <<>> THEN "thrown"
                                   ELSE "returned"]
    /\ warnings' = Append(warnings,
                          <<IF engine = "pg" THEN "Error releasing client:"
                            ELSE "Error closing connection:", cause>>)
    /\ UNCHANGED <<currentLang, engine, seqvars, pvars, tvars>>

InitConcurrent ==
    /\ currentLang \in Languages
    /\ engine \in Engines
    /\ AnalyzeIdle
    /\ PrioritizeIdle
    /\ ConcIdle
    /\ TestIdle

NextConcurrent ==
    \E c \in CallIds :
        \/ \E q \in ConcQueries : ConcCall(c, q)
        \/ ConcConnectOk(c)
        \/ ConcConnectFail(c, "ECONNREFUSED")
        \/ \E rows \in ConcResponses(engine) : ConcExplainOk(c, rows)
        \/ ConcExplainFail(c, "timeout")
        \/ \E rows \in ConcStatsRows : ConcStatsOk(c, rows)
        \/ ConcStatsFail(c, "timeout")
        \/ \E rows \in ConcIndexRows : ConcIndexesOk(c, rows)
        \/ ConcIndexesFail(c, "timeout")
        \/ ConcReleaseOk(c)
        \/ ConcReleaseFail(c, "timeout")

SpecConcurrent == InitConcurrent /\ [][NextConcurrent]_vars

\* ------------------------------------------- testConnection(type, config)
DbTypes == {"MySQL", "PostgreSQL"}

\* error.code / error.message of a failing driver call
TcCauses == {"ECONNREFUSED", "ER_ACCESS_DENIED_ERROR", "timeout"}

\* the databases a server can hold: name and pg_database.datistemplate
Db(name, template) == [datname |-> name, datistemplate |-> template]

Catalogs(t) ==
    IF t = "MySQL"
    THEN { <<>>,
           <<Db("information_schema", FALSE), Db("mysql", FALSE),
             Db("performance_schema", FALSE), Db("sys", FALSE)>>,
           <<Db("information_schema", FALSE), Db("shop", FALSE), Db("mysql", FALSE),
             Db("blog", FALSE)>>,
           <<Db("shop", FALSE)>>,
           <<Db("postgres", FALSE), Db("sys", FALSE)>> }
    ELSE { <<>>,
           <<Db("postgres", FALSE), Db("template0", TRUE), Db("template1", TRUE)>>,
           <<Db("postgres", FALSE), Db("shop", FALSE), Db("template1", TRUE),
             Db("blog", FALSE)>>,
           <<Db("shop", FALSE)>>,
           <<Db("tpl_custom", TRUE), Db("mysql", FALSE)>> }

MySQLSystemDatabases == {"information_schema", "mysql", "performance_schema", "sys"}

PostgreSQLExcluded == {"postgres", "template0", "template1"}

\* the names of the rows, as databases.map(db => db.Database) and
\* result.rows.map(row => row.datname) give them
Names(rows) == [i \in 1..Len(rows) |-> rows[i].datname]

\* SHOW DATABASES gives every database; the list is filtered by the caller
mysqlDbList(cat) ==
    LET keep(name) == name \notin MySQLSystemDatabases
    IN  SelectSeq(Names(cat), keep)

\* the pg_database query filters on the server; the caller maps datname
pgDbList(cat) ==
    LET keep(r) == ~r.datistemplate /\ r.datname \notin PostgreSQLExcluded
    IN  Names(SelectSeq(cat, keep))

\* i18n.t('connection.failed') followed by error.message
ConnectionFailed(cause) ==
    <<IF currentLang = "en" THEN "Connection failed: " ELSE "Koneksi gagal: ", cause>>

TcEntry(op, ok) == [op |-> op, ok |-> ok]

\* the catch block: the spinner fails, the error is wrapped and rethrown,
\* and control passes to the finally block
TcCatch(cause) ==
    /\ spinner' = "fail"
    /\ tcError' = ConnectionFailed(cause)
    /\ tcPc' = "finally"

\* testConnection(t, config) is called: the spinner starts; MySQL awaits
\* createConnection, PostgreSQL builds its Pool and awaits connect()
TestConnection(t) ==
    /\ tcPc = "idle"
    /\ dbType' = t
    /\ spinner' = "spinning"
    /\ IF t = "MySQL"
       THEN tcPc' = "create" /\ UNCHANGED connection
       ELSE tcPc' = "connect" /\ connection' = "set"
    /\ UNCHANGED <<catalog, dbList, tcError, tcOutcome, mainNext, tcIo>>
    /\ UNCHANGED <<avars, pvars, calls>>

TcCreateOk ==
    /\ tcPc = "create"
    /\ connection' = "set"
    /\ tcIo' = Append(tcIo, TcEntry("createConnection", TRUE))
    /\ tcPc' = "connect"
    /\ UNCHANGED <<dbType, catalog, dbList, tcError, tcOutcome, spinner, mainNext>>
    /\ UNCHANGED <<avars, pvars, calls>>

TcCreateFail(cause) ==
    /\ tcPc = "create"
    /\ tcIo' = Append(tcIo, TcEntry("createConnection", FALSE))
    /\ TcCatch(cause)
    /\ UNCHANGED <<dbType, connection, catalog, dbList, tcOutcome, mainNext>>
    /\ UNCHANGED <<avars, pvars, calls>>

TcConnectOk ==
    /\ tcPc = "connect"
    /\ tcIo' = Append(tcIo, TcEntry("connect", TRUE))
    /\ tcPc' = "query"
    /\ UNCHANGED <<dbType, connection, catalog, dbList, tcError, tcOutcome, spinner,
                   mainNext>>
    /\ UNCHANGED <<avars, pvars, calls>>

TcConnectFail(cause) ==
    /\ tcPc = "connect"
    /\ tcIo' = Append(tcIo, TcEntry("connect", FALSE))
    /\ TcCatch(cause)
    /\ UNCHANGED <<dbType, connection, catalog, dbList, tcOutcome, mainNext>>
    /\ UNCHANGED <<avars, pvars, calls>>

\* the listing query returns: dbList is computed and the connection is
\* ended inside the try block
TcQueryOk(cat) ==
    /\ tcPc = "query"
    /\ tcIo' = Append(tcIo, TcEntry("query", TRUE))
    /\ catalog' = cat
    /\ dbList' = IF dbType = "MySQL" THEN mysqlDbList(cat) ELSE pgDbList(cat)
    /\ tcPc' = "end"
    /\ UNCHANGED <<dbType, connection, tcError, tcOutcome, spinner, mainNext>>
    /\ UNCHANGED <<avars, pvars, calls>>

TcQueryFail(cause) ==
    /\ tcPc = "query"
    /\ tcIo' = Append(tcIo, TcEntry("query", FALSE))
    /\ TcCatch(cause)
    /\ UNCHANGED <<dbType, connection, catalog, dbList, tcOutcome, mainNext>>
    /\ UNCHANGED <<avars, pvars, calls>>

\* connection.end() of the try block returns: the spinner succeeds and the
\* return of dbList is pending while the finally block runs
TcEndOk ==
    /\ tcPc = "end"
    /\ tcIo' = Append(tcIo, TcEntry("end", TRUE))
    /\ spinner' = "succeed"
    /\ tcPc' = "finally"
    /\ UNCHANGED <<dbType, connection, catalog, dbList, tcError, tcOutcome, mainNext>>
    /\ UNCHANGED <<avars, pvars, calls>>

TcEndFail(cause) ==
    /\ tcPc = "end"
    /\ tcIo' = Append(tcIo, TcEntry("end", FALSE))
    /\ TcCatch(cause)
    /\ UNCHANGED <<dbType, connection, catalog, dbList, tcOutcome, mainNext>>
    /\ UNCHANGED <<avars, pvars, calls>>

\* the finally block when connection was never assigned
TcFinallySkip ==
    /\ tcPc = "finally"
    /\ connection = "undefined"
    /\ tcOutcome' = IF tcError # <<>> THEN "thrown" ELSE "returned"
    /\ tcPc' = "done"
    /\ UNCHANGED <<dbType, connection, catalog, dbList, tcError, spinner, mainNext, tcIo>>
    /\ UNCHANGED <<avars, pvars, calls>>

\* the finally block: connection.end() returns
TcFinallyEndOk ==
    /\ tcPc = "finally"
    /\ connection = "set"
    /\ tcIo' = Append(tcIo, TcEntry("end", TRUE))
    /\ tcOutcome' = IF tcError # <<>> THEN "thrown" ELSE "returned"
    /\ tcPc' = "done"
    /\ UNCHANGED <<dbType, connection, catalog, dbList, tcError, spinner, mainNext>>
    /\ UNCHANGED <<avars, pvars, calls>>

\* the finally block: connection.end() throws, which replaces the pending
\* return or error of the call
TcFinallyEndFail(cause) ==
    /\ tcPc = "finally"
    /\ connection = "set"
    /\ tcIo' = Append(tcIo, TcEntry("end", FALSE))
    /\ tcError' = <<cause>>
    /\ tcOutcome' = "thrown"
    /\ tcPc' = "done"
    /\ UNCHANGED <<dbType, connection, catalog, dbList, spinner, mainNext>>
    /\ UNCHANGED <<avars, pvars, calls>>

\* main after testConnection: exit on an error or an empty list
MainAfterTest ==
    /\ tcPc = "done"
    /\ mainNext = "none"
    /\ mainNext' = IF tcOutcome = "thrown" \/ dbList = <<>>
                   THEN "exit" ELSE "selectDatabase"
    /\ UNCHANGED <<dbType, tcPc, connection, catalog, dbList, tcError, tcOutcome,
                   spinner, tcIo>>
    /\ UNCHANGED <<avars, pvars, calls>>

InitTestConnection ==
    /\ currentLang \in Languages
    /\ engine = "pg"
    /\ AnalyzeIdle
    /\ PrioritizeIdle
    /\ ConcIdle
    /\ TestIdle

NextTestConnection ==
    \/ \E t \in DbTypes : TestConnection(t)
    \/ TcCreateOk
    \/ \E c \in TcCauses : TcCreateFail(c)
    \/ TcConnectOk
    \/ \E c \in TcCauses : TcConnectFail(c)
    \/ \E cat \in Catalogs(dbType) : TcQueryOk(cat)
    \/ \E c \in TcCauses : TcQueryFail(c)
    \/ TcEndOk
    \/ \E c \in TcCauses : TcEndFail(c)
    \/ TcFinallySkip
    \/ TcFinallyEndOk
    \/ \E c \in TcCauses : TcFinallyEndFail(c)
    \/ MainAfterTest

SpecTestConnection == InitTestConnection /\ [][NextTestConnection]_vars

\* ------------------------------------------------------------------ claims
\* rank of a type as the claim states it: its position in the fixed list,
\* every absent type behind all listed ones
ClaimTypeRank(e, t) ==
    IF \E i \in 1..Len(priorityTypes(e)) : priorityTypes(e)[i] = t
    THEN indexOf(priorityTypes(e), t)
    ELSE Len(priorityTypes(e))

ClaimSevRank(sev) == IF sev = "HIGH" THEN 0 ELSE IF sev = "MEDIUM" THEN 1 ELSE 2

\* C5: the output of prioritize is ordered by severity rank ascending
\* (HIGH, MEDIUM, LOW) and, within one severity, by ascending position of the
\* type in the priority list, absent types behind all listed ones.
C5_Ordered ==
    pCalled =>
        \A i, j \in 1..Len(pOutput) :
            i < j =>
                \/ ClaimSevRank(pOutput[i].severity) < ClaimSevRank(pOutput[j].severity)
                \/ /\ pOutput[i].severity = pOutput[j].severity
                   /\ ClaimTypeRank(pEngine, pOutput[i].type)
                          <= ClaimTypeRank(pEngine, pOutput[j].type)

C5_Witness ==
    /\ pCalled
    /\ Len(pInput) = 3
    /\ pOutput # pInput
    /\ \E i, j \in 1..3 : pInput[i].severity # pInput[j].severity
    /\ \E i, j \in 1..3 :
          /\ pInput[i].severity = pInput[j].severity
          /\ indexOf(priorityTypes(pEngine), pInput[i].type) = -1
          /\ indexOf(priorityTypes(pEngine), pInput[j].type) >= 0

\* the keys of two recommendations are equal
SameKeys(e, a, b) ==
    /\ a.severity = b.severity
    /\ ClaimTypeRank(e, a.type) = ClaimTypeRank(e, b.type)

\* the subsequence of s made of the elements with the keys of k
RECURSIVE WithKeys(_, _, _)
WithKeys(e, k, s) ==
    IF s = <<>> THEN <<>>
    ELSE IF SameKeys(e, k, Head(s)) THEN <<Head(s)>> \o WithKeys(e, k, Tail(s))
    ELSE WithKeys(e, k, Tail(s))

\* C6: prioritize is stable: the recommendations that are equal on both keys
\* (two absent types included) keep their input order in the output.
C6_Stable ==
    pCalled =>
        \A i \in 1..Len(pInput) :
            WithKeys(pEngine, pInput[i], pOutput) = WithKeys(pEngine, pInput[i], pInput)

C6_Witness ==
    /\ pCalled
    /\ Len(pInput) = 3
    /\ pInput[1].type # pInput[3].type
    /\ SameKeys(pEngine, pInput[1], pInput[3])
    /\ indexOf(priorityTypes(pEngine), pInput[1].type) = -1
    /\ Compare(pEngine, pInput[2], pInput[1]) < 0
    /\ pOutput = <<pInput[2], pInput[1], pInput[3]>>

\* number of occurrences of x in s
Count(x, s) == Cardinality({i \in 1..Len(s) : s[i] = x})

\* C7: prioritize returns exactly the recommendations it was given, each as
\* often as given and none altered; a singleton list comes back as it is.
C7_Permutation ==
    pCalled =>
        /\ Len(pOutput) = Len(pInput)
        /\ \A i \in 1..Len(pInput) : Count(pInput[i], pOutput) = Count(pInput[i], pInput)
        /\ (Len(pInput) = 1 => pOutput = pInput)

C7_Witness ==
    /\ pCalled
    /\ Len(pInput) = 3
    /\ pInput[1] = pInput[3]
    /\ pInput[2] # pInput[1]
    /\ pOutput # pInput

C7_WitnessSingleton ==
    pCalled /\ Len(pInput) = 1 /\ pOutput = pInput

\* C8 as stated: after the call the sequence the caller passed in holds the
\* same elements in the same order as before.
C8_ArgumentUnchanged ==
    pCalled => pArray = pInput

\* C8 amended: prioritize returns for every list of recommendations, the
\* value returned is the caller's own array, and that array then holds the
\* elements it held before the call, in prioritized order.
C8_SortsInPlace ==
    pCalled =>
        /\ pOutput = pArray
        /\ Len(pArray) = Len(pInput)
        /\ \A i \in 1..Len(pInput) : Count(pInput[i], pArray) = Count(pInput[i], pInput)
        /\ \A i \in 1..(Len(pArray) - 1) : Compare(pEngine, pArray[i], pArray[i + 1]) <= 0

C8_Witness ==
    /\ pCalled
    /\ Len(pInput) = 2
    /\ Compare(pEngine, pInput[1], pInput[2]) > 0
    /\ pArray = <<pInput[2], pInput[1]>>
    /\ pOutput = pArray

\* ----------------------------------------------------- claims on analyze
\* the i-th call on the collaborator was op and failed
Failed(op) == \E i \in 1..Len(io) : io[i].op = op /\ ~io[i].ok

Succeeded(op) == \E i \in 1..Len(io) : io[i].op = op /\ io[i].ok

\* the query is empty, blank or no string / it is text that is no SELECT
ClaimInvalidQuery(q) ==
    \/ q.type # "string"
    \/ \A i \in 1..Len(q.text) : q.text[i] \in {" ", "\t", "\n"}

ClaimUnsupportedQuery(q) ==
    /\ ~ClaimInvalidQuery(q)
    /\ LET t == trim(q.text)
       IN  \/ Len(t) < 6
           \/ \E i \in 1..6 :
                 t[i] \notin <<{"s", "S"}, {"e", "E"}, {"l", "L"},
                               {"e", "E"}, {"c", "C"}, {"t", "T"}>>[i]

IsInvalidQueryError(err) ==
    Len(err) = 2 /\ err[2] \in {"Invalid query provided", "Empty query provided"}

IsUnsupportedQueryError(err) ==
    Len(err) = 2 /\ err[2] = "Only SELECT queries can be analyzed"

\* C1 as stated: analyze fails with the invalid-query error on every empty or
\* blank query and with the unsupported-query error on every text that is no
\* SELECT, whatever the database collaborator does.
C1_ValidationWhateverDb ==
    pc = "done" =>
        /\ ClaimInvalidQuery(query) =>
               outcome = "thrown" /\ IsInvalidQueryError(error)
        /\ ClaimUnsupportedQuery(query) =>
               outcome = "thrown" /\ IsUnsupportedQueryError(error)

\* number of calls of op on the collaborator
Calls(op) == Cardinality({i \in 1..Len(io) : io[i].op = op})

C2_WitnessSuccess ==
    pc = "done" /\ outcome = "returned" /\ client = "released"

C2_WitnessPlanFailure ==
    pc = "done" /\ outcome = "thrown" /\ client = "released" /\ Failed("explain")

\* C3: when the EXPLAIN query fails, analyze returns no result and throws
\* the plan-retrieval error, whose message carries the message of the cause.
C3_PlanFailureFatal ==
    pc = "done" =>
        \A i \in 1..Len(io) :
            (io[i].op = "explain" /\ ~io[i].ok) =>
                /\ outcome = "thrown"
                /\ result = <<>>
                /\ Len(error) = 3
                /\ error[2] = "Failed to get execution plan: "
                /\ error[3] = io[i].cause

C3_Witness ==
    /\ pc = "done" /\ outcome = "thrown"
    /\ \E i \in 1..Len(io) : io[i] = IoEntry("explain", FALSE, "timeout")
    /\ error[3] = "timeout"

\* C4: when the statistics query or the index query fails after the plan was
\* retrieved, analyze still returns a result; the failed collection is the
\* empty sequence and the recommendations are those of the plan with the
\* collections that are left.
C4_MetadataFailureAbsorbed ==
    (pc = "done" /\ (Failed("stats") \/ Failed("indexes"))) =>
        /\ outcome = "returned"
        /\ error = <<>>
        /\ Len(result) = 1
        /\ Failed("stats") => result[1].tableStatistics = <<>>
        /\ Failed("indexes") => result[1].indexes = <<>>
        /\ result[1].recommendations =
               generateRecommendations(engine, result[1].executionPlan,
                   IF Failed("stats") THEN <<>> ELSE result[1].tableStatistics,
                   IF Failed("indexes") THEN <<>> ELSE result[1].indexes).recommendations
        /\ Failed("stats") =>
               \A i \in 1..Len(result[1].recommendations) :
                   result[1].recommendations[i].type
                       \notin {"LARGE_TABLE_SCAN", "HIGH_INDEX_RATIO"}
        /\ Failed("indexes") =>
               \A i \in 1..Len(result[1].recommendations) :
                   result[1].recommendations[i].type # "PARTIAL_INDEX_USAGE"

C4_Witness ==
    /\ pc = "done" /\ outcome = "returned"
    /\ Failed("stats") /\ Failed("indexes")
    /\ result[1].tableStatistics = <<>> /\ result[1].indexes = <<>>
    /\ Len(result[1].recommendations) >= 2

C4_WitnessStatsOnly ==
    /\ pc = "done" /\ outcome = "returned"
    /\ Failed("stats") /\ Succeeded("indexes")
    /\ result[1].indexes # <<>>
    /\ \E i \in 1..Len(result[1].recommendations) :
          result[1].recommendations[i].type = "PARTIAL_INDEX_USAGE"

\* the two-level plan of C9: a hash join with two hash batches over one
\* sequential scan
TwoLevelPlan ==
    [PgBase EXCEPT !.Node_Type = HashJoin, !.HashBatches = 2,
                   !.HashCond = <<"a", "=", "b">>,
                   !.Plans = <<[PgBase EXCEPT !.Node_Type = SeqScan,
                                              !.RelationName = "orders"]>>]

\* C9 as stated: the two-level plan yields the full-scan finding (HIGH) of
\* the child followed by the hash-spill finding (MEDIUM) of the root.
C9_TwoLevelOrder ==
    (pc = "done" /\ outcome = "returned" /\ engine = "pg"
        /\ explainResult = <<[Plan |-> <<TwoLevelPlan>>]>>) =>
        /\ Len(result[1].recommendations) = 2
        /\ result[1].recommendations[1].type \in {"TABLE_SCAN", "SEQUENTIAL_SCAN"}
        /\ result[1].recommendations[1].severity = "HIGH"
        /\ result[1].recommendations[2].type = "HASH_SPILL"
        /\ result[1].recommendations[2].severity = "MEDIUM"

RECURSIVE ClaimPreorder(_)
RECURSIVE ClaimPreorderAll(_)
\* the nodes of a plan tree depth-first, pre-order, children in their order
ClaimPreorder(node) == <<node>> \o ClaimPreorderAll(node.Plans)

ClaimPreorderAll(plans) ==
    IF plans = <<>> THEN <<>>
    ELSE ClaimPreorder(Head(plans)) \o ClaimPreorderAll(Tail(plans))

RECURSIVE ClaimEvaluateNodes(_, _, _)
\* every rule of the PostgreSQL catalog applied at each node of the list
ClaimEvaluateNodes(nodes, stats, idx) ==
    IF nodes = <<>> THEN [recs |-> <<>>, threw |-> FALSE]
    ELSE LET here == RunRules("pg", 1, [Plan |-> <<Head(nodes)>>], stats, idx, <<>>)
             rest == ClaimEvaluateNodes(Tail(nodes), stats, idx)
         IN  [recs |-> here.recs \o rest.recs, threw |-> here.threw \/ rest.threw]

\* C10 as stated: evaluate applies every rule of the catalog at every node of
\* the tree, visited once each in pre-order, and collects the findings in one
\* list (compared here after prioritization, on plans where no rule throws).
C10_EveryNodeVisited ==
    (pc = "done" /\ outcome = "returned" /\ engine = "pg"
        /\ explainResult # <<>> /\ explainResult[1].Plan # <<>>) =>
        LET all == ClaimEvaluateNodes(ClaimPreorder(explainResult[1].Plan[1]),
                                      tableStats, indexes)
        IN  ~all.threw =>
                result[1].recommendations = ArraySort("pg", all.recs)

\* the plan nodes of the retrieved plan: the tree under Plan in pre-order
\* (PostgreSQL), the retrieved EXPLAIN row (MySQL)
ClaimPlanNodes ==
    IF explainResult = <<>> THEN <<>>
    ELSE IF engine = "mysql" THEN <<explainResult[1]>>
    ELSE IF explainResult[1].Plan = <<>> THEN <<>>
    ELSE ClaimPreorder(explainResult[1].Plan[1])

\* the node reads a whole table: access type ALL / node type Seq Scan
ClaimIsFullScan(node) ==
    IF engine = "mysql" THEN node.type = "ALL" ELSE node.Node_Type = SeqScan

ClaimRelation(node) == IF engine = "mysql" THEN node.table ELSE node.RelationName

\* number of recommendations of the list with one of the types and the severity
ClaimCountOf(recs, types, severity) ==
    Cardinality({i \in 1..Len(recs) :
                    recs[i].type \in types /\ recs[i].severity = severity})

\* C11 as stated: every full-scan node on a named relation yields exactly
\* one full-scan recommendation of severity HIGH (TABLE_SCAN, which the
\* PostgreSQL catalog calls SEQUENTIAL_SCAN), so a plan whose full scans all
\* name their relation has as many such recommendations as full-scan nodes.
C11_OneFindingPerFullScan ==
    (pc = "done" /\ outcome = "returned") =>
        LET nodes == ClaimPlanNodes
            scans == {i \in 1..Len(nodes) : ClaimIsFullScan(nodes[i])}
        IN  (\A i \in scans : ClaimRelation(nodes[i]) # "") =>
                ClaimCountOf(result[1].recommendations,
                             {"TABLE_SCAN", "SEQUENTIAL_SCAN"}, "HIGH")
                    = Cardinality(scans)

\* C11 at the node the analyzers evaluate: the first EXPLAIN row / the root
C11_RootOnly ==
    (pc = "done" /\ outcome = "returned" /\ ClaimPlanNodes # <<>>
        /\ ClaimIsFullScan(ClaimPlanNodes[1])) =>
        ClaimCountOf(result[1].recommendations,
                     {"TABLE_SCAN", "SEQUENTIAL_SCAN"}, "HIGH") = 1

\* the first statistics entry of the table the evaluated node touches
ClaimStatOf(node) ==
    LET hits == {i \in 1..Len(tableStats) :
                    tableStats[i].table_name = ClaimRelation(node)}
    IN  IF hits = {} THEN <<>>
        ELSE <<tableStats[CHOOSE i \in hits : \A j \in hits : i <= j]>>

ClaimHasRec(type, severity) ==
    \E i \in 1..Len(result[1].recommendations) :
        /\ result[1].recommendations[i].type = type
        /\ result[1].recommendations[i].severity = severity

\* C12 as stated, at the evaluated node: when the statistics hold an entry
\* for the node's table, LARGE_TABLE_SCAN (HIGH) is reported exactly when the
\* entry has more than 10000 rows and the node is a full scan, and
\* HIGH_INDEX_RATIO (LOW) exactly when index size / data size > 0.5.
C12_StatisticsRule ==
    (pc = "done" /\ outcome = "returned" /\ ClaimPlanNodes # <<>>
        /\ ClaimStatOf(ClaimPlanNodes[1]) # <<>>) =>
        LET node == ClaimPlanNodes[1]
            stat == ClaimStatOf(node)[1]
        IN  /\ ClaimHasRec("LARGE_TABLE_SCAN", "HIGH")
                <=> (stat.table_rows > 10000 /\ ClaimIsFullScan(node))
            /\ ClaimHasRec("HIGH_INDEX_RATIO", "LOW")
                <=> (IF stat.data_length = 0 THEN stat.index_length > 0
                     ELSE 2 * stat.index_length > stat.data_length)

\* C12 for the MySQL analyzer alone
C12_StatisticsRuleMySQL == engine = "mysql" => C12_StatisticsRule

\* C13 as stated, at the evaluated (root) node: a node with more than one
\* actual loop whose kind is not Materialize yields MISSED_MATERIALIZATION
\* (MEDIUM), whatever its other attributes are.
C13_MissedMaterialization ==
    (pc = "done" /\ outcome = "returned" /\ engine = "pg"
        /\ ClaimPlanNodes # <<>>) =>
        LET node == ClaimPlanNodes[1]
        IN  (node.ActualLoops > 1 /\ node.Node_Type # Materialize) =>
                ClaimHasRec("MISSED_MATERIALIZATION", "MEDIUM")

\* C13 for the root nodes on which no rule of the catalog throws
C13_WhenNoRuleThrows ==
    (pc = "done" /\ outcome = "returned" /\ engine = "pg"
        /\ ClaimPlanNodes # <<>> /\ warnings = <<>>) =>
        LET node == ClaimPlanNodes[1]
        IN  (node.ActualLoops > 1 /\ node.Node_Type # Materialize) =>
                ClaimHasRec("MISSED_MATERIALIZATION", "MEDIUM")

\* the retrieved payload has no plan object or its node has no node type
ClaimLacksNodeType ==
    \/ ClaimPlanNodes = <<>>
    \/ IF engine = "mysql" THEN ClaimPlanNodes[1].type = ""
       ELSE ClaimPlanNodes[1].Node_Type = <<>>

C14_WitnessNoNodeType ==
    /\ pc = "done" /\ outcome = "returned" /\ engine = "mysql"
    /\ ClaimPlanNodes # <<>> /\ ClaimPlanNodes[1].type = ""
    /\ ClaimHasRec("TEMP_TABLE", "MEDIUM")

\* the text has a part that is the rendering of the value
ClaimContains(message, value) ==
    \E k \in 1..Len(message) : message[k] = JsToString(value)

\* C15 as stated: the message of the full-scan recommendation contains the
\* table name of the node, and the messages of the large-table-scan and
\* large-sort recommendations contain the row count the rule tested.
C15_MessageCarriesValue ==
    (pc = "done" /\ outcome = "returned" /\ ClaimPlanNodes # <<>>) =>
        LET node == ClaimPlanNodes[1]
            recs == result[1].recommendations
        IN  \A i \in 1..Len(recs) :
                /\ recs[i].type \in {"TABLE_SCAN", "SEQUENTIAL_SCAN"} =>
                       ClaimContains(recs[i].message, JsString(ClaimRelation(node)))
                /\ recs[i].type = "LARGE_TABLE_SCAN" =>
                       ClaimContains(recs[i].message,
                                     JsNumber(ClaimStatOf(node)[1].table_rows))
                /\ recs[i].type = "LARGE_SORT" =>
                       ClaimContains(recs[i].message, JsNumber(node.rows))

\* a state in which one of the three messages has been rendered
C15_Rendered ==
    /\ pc = "done" /\ outcome = "returned"
    /\ \E i \in 1..Len(result[1].recommendations) :
          result[1].recommendations[i].type
              \in {"TABLE_SCAN", "SEQUENTIAL_SCAN", "LARGE_TABLE_SCAN", "LARGE_SORT"}

\* what the k-th rule of the catalog finds on the evaluated node when it is
\* applied by itself
ClaimFindings(k) == Rule(engine, k, explainResult[1], tableStats, indexes).recs

RECURSIVE ClaimAllFindings(_)
\* the findings of the rules k..NumRules, each applied by itself, in order
ClaimAllFindings(k) ==
    IF k > NumRules THEN <<>> ELSE ClaimFindings(k) \o ClaimAllFindings(k + 1)

\* C16 as stated: on a plan of one node every rule of the catalog is applied
\* exactly once, so the returned list has one recommendation for each
\* finding of each rule, no more and no fewer.
C16_EveryRuleOnce ==
    (pc = "done" /\ outcome = "returned" /\ Len(ClaimPlanNodes) = 1) =>
        Len(result[1].recommendations) = Len(ClaimAllFindings(1))

\* C16 on the plans on which no rule throws
C16_WhenNoRuleThrows ==
    (pc = "done" /\ outcome = "returned" /\ Len(ClaimPlanNodes) = 1
        /\ \A k \in 1..NumRules :
              ~Rule(engine, k, explainResult[1], tableStats, indexes).threw) =>
        Len(result[1].recommendations) = Len(ClaimAllFindings(1))

\* t is the text without the whitespace at its two ends
ClaimIsTrimOf(t, text) ==
    /\ t # <<>> => (t[1] \notin Whitespace /\ t[Len(t)] \notin Whitespace)
    /\ \E i \in 0..(Len(text) - Len(t)) :
          /\ SubSeq(text, i + 1, i + Len(t)) = t
          /\ \A k \in 1..i : text[k] \in Whitespace
          /\ \A k \in (i + Len(t) + 1)..Len(text) : text[k] \in Whitespace

\* C17: on success result.query is the input text without leading and
\* trailing whitespace, and no recommendation of the result is preceded by
\* one of strictly lower severity.
C17_TrimmedAndPrioritized ==
    (pc = "done" /\ outcome = "returned") =>
        /\ query.type = "string"
        /\ ClaimIsTrimOf(result[1].query, query.text)
        /\ \A i, j \in 1..Len(result[1].recommendations) :
              i < j => ClaimSevRank(result[1].recommendations[i].severity)
                         <= ClaimSevRank(result[1].recommendations[j].severity)

C17_Witness ==
    /\ pc = "done" /\ outcome = "returned"
    /\ Len(query.text) > Len(result[1].query)
    /\ \E i, j \in 1..Len(result[1].recommendations) :
          /\ i < j
          /\ result[1].recommendations[i].severity = "HIGH"
          /\ result[1].recommendations[j].severity = "LOW"

\* what analyze(q) yields when it runs by itself and the collaborator
\* answers its queries with the responses r
ClaimAnalyzeAlone(q, r) ==
    LET thrown(message) ==
            [outcome |-> "thrown", result |-> <<>>,
             error |-> AnalysisError(engine, message)]
    IN  IF ~r.connect[1].ok THEN thrown(<<r.connect[1].cause>>)
        ELSE IF ~validate(q).ok THEN thrown(validate(q).message)
        ELSE IF ~r.explain[1].ok THEN thrown(PlanError(r.explain[1].cause))
        ELSE IF extractPlan(engine, r.explain[1].rows).threw
        THEN thrown(PlanError(TypeErrorMessage))
        ELSE LET plan == extractPlan(engine, r.explain[1].rows).value
                 stats == IF r.stats[1].ok THEN r.stats[1].rows ELSE <<>>
                 idx == IF r.indexes[1].ok THEN r.indexes[1].rows ELSE <<>>
             IN  [outcome |-> "returned",
                  result |-> <<[query |-> trim(q.text),
                                executionPlan |-> plan,
                                tableStatistics |-> stats,
                                indexes |-> idx,
                                recommendations |->
                                    generateRecommendations(engine, plan, stats,
                                                            idx).recommendations]>>,
                  error |-> <<>>]

\* C18: under every interleaving of two analyze calls, each call completes
\* with the result or error it yields when run alone on the same query and
\* the same collaborator responses, and each call that acquired a client has
\* invoked the release of its own client.
C18_CallsIndependent ==
    \A c \in CallIds :
        calls[c].pc = "done" =>
            /\ [outcome |-> calls[c].outcome, result |-> calls[c].result,
                error |-> calls[c].error]
                   = ClaimAnalyzeAlone(calls[c].query, calls[c].responses)
            /\ calls[c].client # "held"
            /\ calls[c].responses.connect[1].ok => calls[c].client # "none"

\* both calls were in flight together, on different plans, and both returned
C18_Witness ==
    /\ \A c \in CallIds : calls[c].pc = "done" /\ calls[c].outcome = "returned"
    /\ calls["a"].result[1].executionPlan # calls["b"].result[1].executionPlan
    /\ calls["a"].result[1].recommendations # calls["b"].result[1].recommendations
    /\ Len(warnings) = 3
    /\ warnings[1][1] = "Failed to get table statistics:"
    /\ warnings[2][1] = "Failed to get table statistics:"
    /\ warnings[3][1] = "Failed to get index information:"

\* C19 as stated: on the evaluated node no rule fails on an absent or
\* unexpected field, every rule is evaluated, and each finding of each rule
\* is in the returned list.
C19_AbsentFieldsTolerated ==
    (pc = "done" /\ outcome = "returned" /\ ClaimPlanNodes # <<>>) =>
        \A k \in 1..NumRules :
            /\ ~Rule(engine, k, explainResult[1], tableStats, indexes).threw
            /\ \A i \in 1..Len(ClaimFindings(k)) :
                  \E j \in 1..Len(result[1].recommendations) :
                      result[1].recommendations[j] = ClaimFindings(k)[i]

\* C19 for the MySQL analyzer alone, whose rules guard every field they read
C19_MySQL == engine = "mysql" => C19_AbsentFieldsTolerated

RECURSIVE ClaimRunInOrder(_, _)
\* the try block of generateRecommendations with its rule calls arranged in
\* the given order: the calls run one after the other onto acc until one throws
ClaimRunInOrder(order, acc) ==
    IF order = <<>> THEN acc
    ELSE LET r == Rule(engine, Head(order), explainResult[1], tableStats, indexes)
         IN  IF r.threw THEN acc \o r.recs
             ELSE ClaimRunInOrder(Tail(order), acc \o r.recs)

\* orders of the catalog: the reverse order and every rotation
ClaimOrders ==
    {[i \in 1..NumRules |-> NumRules + 1 - i]}
    \cup {[i \in 1..NumRules |-> ((i + s - 1) % NumRules) + 1] : s \in 0..(NumRules - 1)}

\* the two lists hold the same recommendations with the same multiplicities
ClaimSameMultiset(s, t) ==
    /\ Len(s) = Len(t)
    /\ \A i \in 1..Len(s) : Count(s[i], s) = Count(s[i], t)

\* C20 as stated: the rules applied in any order of the catalog yield the
\* same multiset of recommendations as the list analyze returns.
C20_OrderInsensitive ==
    (pc = "done" /\ outcome = "returned" /\ ClaimPlanNodes # <<>>) =>
        \A order \in ClaimOrders :
            ClaimSameMultiset(ClaimRunInOrder(order, <<>>),
                              result[1].recommendations)

\* C20 on the plans on which no rule throws
C20_WhenNoRuleThrows ==
    (pc = "done" /\ outcome = "returned" /\ ClaimPlanNodes # <<>>
        /\ \A k \in 1..NumRules :
              ~Rule(engine, k, explainResult[1], tableStats, indexes).threw) =>
        \A order \in ClaimOrders :
            ClaimSameMultiset(ClaimRunInOrder(order, <<>>),
                              result[1].recommendations)

\* position of a collaborator call in the order analyze issues them
ClaimOpRank(op) ==
    CASE op = "connect" -> 0
      [] op = "explain" -> 1
      [] op = "stats" -> 2
      [] op = "indexes" -> 3
      [] op = "release" -> 4

\* C21: within one analyze call the plan query, the statistics query and the
\* index query complete in this order, each is issued only once the one
\* before it has completed, and none is issued twice, a failed one included.
C21_SequentialNoRetry ==
    /\ \A op \in {"connect", "explain", "stats", "indexes", "release"} :
          Calls(op) <= 1
    /\ \A i, j \in 1..Len(io) :
          i < j => ClaimOpRank(io[i].op) < ClaimOpRank(io[j].op)
    /\ pc = "stats" => (Calls("explain") = 1 /\ Calls("stats") = 0)
    /\ pc = "indexes" => (Calls("stats") = 1 /\ Calls("indexes") = 0)
    /\ pc = "explain" => Calls("explain") = 0

C21_Witness ==
    /\ pc = "done" /\ outcome = "returned"
    /\ Succeeded("explain") /\ Failed("stats") /\ Failed("indexes")
    /\ Calls("stats") = 1 /\ Calls("indexes") = 1

\* the findings about an external sort: FILE_SORT and LARGE_SORT
ClaimSortFindings ==
    {i \in 1..Len(result[1].recommendations) :
        result[1].recommendations[i].type \in {"FILE_SORT", "LARGE_SORT"}}

\* the evaluated MySQL row required an external sort
ClaimExternalSort ==
    /\ pc = "done" /\ outcome = "returned" /\ engine = "mysql"
    /\ ClaimPlanNodes # <<>>
    /\ includes(ClaimPlanNodes[1].Extra, UsingFilesort)

ClaimTemporaryStructure ==
    /\ pc = "done" /\ outcome = "returned" /\ ClaimPlanNodes # <<>>
    /\ IF engine = "mysql" THEN includes(ClaimPlanNodes[1].Extra, UsingTemporary)
       ELSE ClaimPlanNodes[1].TemporaryFileUsage

\* C23 as stated: for both engines such a node yields a temporary-structure
\* recommendation (TEMP_TABLE / TEMP_FILES) and its severity is MEDIUM.
C23_TemporaryStructureMedium ==
    ClaimTemporaryStructure =>
        /\ ClaimCountOf(result[1].recommendations,
                        {"TEMP_TABLE", "TEMP_FILES"}, "MEDIUM") = 1
        /\ ClaimCountOf(result[1].recommendations,
                        {"TEMP_TABLE", "TEMP_FILES"}, "HIGH") = 0
        /\ ClaimCountOf(result[1].recommendations,
                        {"TEMP_TABLE", "TEMP_FILES"}, "LOW") = 0

\* C23 for the MySQL analyzer alone
C23_MySQL == engine = "mysql" => C23_TemporaryStructureMedium

\* the partition-effectiveness findings of the result
ClaimPartitionFindings ==
    {i \in 1..Len(result[1].recommendations) :
        result[1].recommendations[i].type
            \in {"INEFFECTIVE_PARTITION", "PARTITION_PRUNING"}}

\* C24 as stated: for both engines a partition-effectiveness recommendation
\* has severity HIGH, and for a PostgreSQL partitioned scan there is one
\* exactly when the scan removed zero partitions.
C24_PartitionEffectiveness ==
    (pc = "done" /\ outcome = "returned" /\ ClaimPlanNodes # <<>>) =>
        /\ \A i \in ClaimPartitionFindings :
              result[1].recommendations[i].severity = "HIGH"
        /\ (engine = "pg" /\ includes(ClaimPlanNodes[1].Node_Type, <<"Partition">>)) =>
              (Cardinality(ClaimPartitionFindings)
                  = IF ClaimPlanNodes[1].PartitionsRemoved = 0 THEN 1 ELSE 0)

\* C24 for the PostgreSQL analyzer alone
C24_PostgreSQL == engine = "pg" => C24_PartitionEffectiveness

\* the positions of the log of collaborator calls that are queries
ClaimQueryCalls == {i \in 1..Len(io) : io[i].op \in {"explain", "stats", "indexes"}}

\* C25: no query is sent for a text that fails validation, the statistics
\* and index queries are sent only after the plan query succeeded and the
\* plan step raised nothing, and once validation or the plan retrieval has
\* failed the only call still made on the connection is its release.
C25_QueriesGated ==
    /\ (pc # "idle" /\ ~validate(query).ok) => ClaimQueryCalls = {}
    /\ \A i \in ClaimQueryCalls :
          io[i].op \in {"stats", "indexes"} =>
              /\ \E j \in 1..(i - 1) : io[j].op = "explain" /\ io[j].ok
              /\ error = <<>>
    /\ error # <<>> =>
          \A i \in 1..Len(io) :
              /\ io[i].op \in {"connect", "explain", "release"}
              /\ (io[i].op = "explain" /\ i < Len(io)) =>
                    (i + 1 = Len(io) /\ io[i + 1].op = "release")

\* C25 as a step property: a call that has failed validation or plan
\* retrieval and still holds its connection can only release it
C25_OnlyReleaseAfterFailure ==
    [][(error # <<>> /\ client = "held") =>
          /\ Len(io') = Len(io) + 1
          /\ io'[Len(io')].op = "release"]_vars

C25_Witness ==
    /\ pc = "done" /\ outcome = "thrown"
    /\ Calls("explain") = 1
    /\ Calls("release") = 1
    /\ ClaimQueryCalls = {2}

C25_WitnessInvalid ==
    /\ pc = "done" /\ outcome = "thrown"
    /\ ~validate(query).ok
    /\ Calls("release") = 1

\* the rules of the catalog that throw on the plan of the call
ClaimThrowingRules ==
    {k \in 1..NumRules :
        Rule(engine, k, explainResult[1], tableStats, indexes).threw}

RECURSIVE ClaimFindingsUpTo(_, _)
\* the findings of the rules k..last, each applied by itself, in order
ClaimFindingsUpTo(k, last) ==
    IF k > last THEN <<>> ELSE ClaimFindings(k) \o ClaimFindingsUpTo(k + 1, last)

\* C26: when a rule throws, generateRecommendations logs a warning, keeps
\* what the rules up to the throwing one pushed, skips the rules after it,
\* returns the prioritized list, and analyze returns its result.
C26_RuleExceptionAbsorbed ==
    (pc \in {"finally", "done"} /\ result # <<>> /\ explainResult # <<>>
        /\ ClaimThrowingRules # {}) =>
        LET t == CHOOSE k \in ClaimThrowingRules :
                     \A j \in ClaimThrowingRules : k <= j
        IN  /\ error = <<>>
            /\ pc = "done" => outcome = "returned"
            /\ result[1].recommendations
                  = prioritizeRecommendations(engine, ClaimFindingsUpTo(1, t)).returned
            /\ \E i \in 1..Len(warnings) :
                  warnings[i][1] = "analyzer.errors.recommendations"

C26_Witness ==
    /\ pc = "done" /\ outcome = "returned" /\ explainResult # <<>>
    /\ ClaimThrowingRules # {}
    /\ \A k \in ClaimThrowingRules : k > 1
    /\ result[1].recommendations # <<>>
    /\ Len(result[1].recommendations) < Len(ClaimAllFindings(1))

\* C27: an error thrown by release() / end() in the finally block is logged
\* and swallowed: the step leaves the result and the error of the call as
\* they were and the call completes with them; the release is attempted
\* only on a connection that was acquired.
C27_CleanupErrorSwallowed ==
    [][/\ (pc = "finally" /\ pc' = "done") =>
            /\ result' = result
            /\ error' = error
            /\ outcome' = (IF error = <<>> THEN "returned" ELSE "thrown")
            /\ (error = <<>>) = (result # <<>>)
       /\ Len(io') > Len(io) /\ io'[Len(io')].op = "release" =>
            /\ client = "held"
            /\ \E i \in 1..Len(io) : io[i].op = "connect" /\ io[i].ok]_vars

\* C27 on the completed call: no release is logged unless the connect
\* succeeded, and a failed release leaves a returned result or the error
\* that the try block raised
C27_Completed ==
    /\ Calls("release") > 0 =>
          \E i \in 1..Len(io) : io[i].op = "connect" /\ io[i].ok
    /\ (pc = "done" /\ client = "releaseFailed") =>
          \/ outcome = "returned" /\ result # <<>> /\ error = <<>>
          \/ /\ outcome = "thrown" /\ result = <<>>
             /\ error \in {AnalysisError(engine, validate(query).message)}
                    \cup {AnalysisError(engine, PlanError(c)) : c \in Causes \cup {TypeErrorMessage}}

C27_Witness ==
    /\ pc = "done" /\ client = "releaseFailed"
    /\ outcome = "thrown"
    /\ Calls("explain") = 1

C27_WitnessReturned ==
    /\ pc = "done" /\ client = "releaseFailed"
    /\ outcome = "returned"

\* the EXPLAIN outputs that begin with the same row as rows
ClaimSameFirstRow(rows) ==
    {other \in MyResponses : other # <<>> /\ rows # <<>> /\ other[1] = rows[1]}

\* C28: the MySQL analyzer takes the first row of the EXPLAIN output as the
\* execution plan, whatever rows follow it; the result carries that row and
\* the recommendations generated from it, so two outputs with the same first
\* row give the same recommendations, and an empty output gives none.
C28_FirstRowOnly ==
    /\ []((engine = "mysql" /\ pc \in {"finally", "done"} /\ result # <<>>) =>
            /\ result[1].executionPlan = explainResult
            /\ result[1].recommendations
                  = generateRecommendations("mysql", explainResult, tableStats,
                                            indexes).recommendations
            /\ (\E i \in 1..Len(io) : io[i].op = "explain" /\ io[i].rows = 0) =>
                  result[1].recommendations = <<>>)
    /\ [][\A rows \in MyResponses :
            (engine = "mysql" /\ ExplainOk(rows)) =>
                /\ explainResult' = IF rows = <<>> THEN <<>> ELSE <<rows[1]>>
                /\ \A other \in ClaimSameFirstRow(rows) :
                      \A s \in StatsRows, i \in IndexRows :
                          generateRecommendations("mysql", extractPlan("mysql", other).value, s, i)
                            = generateRecommendations("mysql", explainResult', s, i)]_vars

C28_Witness ==
    /\ engine = "mysql" /\ pc = "done" /\ outcome = "returned"
    /\ \E i \in 1..Len(io) : io[i].op = "explain" /\ io[i].rows = 2
    /\ result[1].recommendations # <<>>

C28_WitnessEmpty ==
    /\ engine = "mysql" /\ pc = "done" /\ outcome = "returned"
    /\ \E i \in 1..Len(io) : io[i].op = "explain" /\ io[i].ok /\ io[i].rows = 0
    /\ result[1].recommendations = <<>>

\* C29: the recommendations the PostgreSQL analyzer returns are a function
\* of the execution plan alone: whatever rows the statistics and index
\* queries returned, and whether they succeeded, the list is the same.
C29_MetadataIgnored ==
    (engine = "pg" /\ pc \in {"finally", "done"} /\ result # <<>>) =>
        \A s \in StatsRows, i \in IndexRows :
            result[1].recommendations
                = generateRecommendations("pg", explainResult, s, i).recommendations

C29_Witness ==
    /\ engine = "pg" /\ pc = "done" /\ outcome = "returned"
    /\ tableStats # <<>> /\ indexes # <<>>
    /\ \E r \in 1..Len(tableStats) : tableStats[r].table_rows > 10000
    /\ result[1].recommendations # <<>>

\* the end() calls testConnection made on the connection or pool
ClaimEndCalls == Cardinality({i \in 1..Len(tcIo) : tcIo[i].op = "end"})

\* the databases of the catalog that are not system databases, in order
ClaimNonSystem ==
    LET user(r) == IF dbType = "MySQL" THEN r.datname \notin MySQLSystemDatabases
                   ELSE ~r.datistemplate /\ r.datname \notin PostgreSQLExcluded
    IN  Names(SelectSeq(catalog, user))

ClaimListed == \E i \in 1..Len(tcIo) : tcIo[i].op = "query" /\ tcIo[i].ok

\* C30 as stated: a completed testConnection has ended the connection or
\* pool it opened exactly once, and when the connection and the database
\* listing succeeded it returns the non-system databases.
C30_ClosedOnceAndListed ==
    tcPc = "done" =>
        /\ connection = "set" => ClaimEndCalls = 1
        /\ ClaimListed => (tcOutcome = "returned" /\ dbList = ClaimNonSystem)

\* C30, the part that holds: a connection that was opened is ended at least
\* once on every exit path, none is ended that was not opened, and a call
\* that returns has listed the non-system databases
C30_ClosedAtLeastOnce ==
    tcPc = "done" =>
        /\ connection = "set" => ClaimEndCalls \in {1, 2}
        /\ connection = "undefined" => ClaimEndCalls = 0
        /\ tcOutcome = "returned" => (ClaimListed /\ dbList = ClaimNonSystem
                                       /\ ClaimEndCalls = 2)

C30_WitnessClosedTwice ==
    /\ tcPc = "done" /\ tcOutcome = "returned"
    /\ dbList # <<>> /\ dbList # Names(catalog)
    /\ ClaimEndCalls = 2

====
